---- MODULE Spec2Model ----
(***************************************************************************)
(* SIEM-lite pipeline (src/src/siem_pipeline.py, src/src/utils.py):        *)
(* ingestor -> Q_raw -> parser workers -> Q_parsed -> indexer -> store,    *)
(* the alert engine run by the indexer, the metrics collector and the      *)
(* shutdown sequence of main().                                            *)
(*                                                                         *)
(* Time is a clock in seconds that advances in steps of TickStep.          *)
(* datetime.now().isoformat() followed by datetime.fromisoformat() is      *)
(* exact to the microsecond, so instants are modelled as integers.         *)
(***************************************************************************)
EXTENDS Integers, Sequences, FiniteSets, TLC

VARIABLES
    shutdown,       \* shutdown_event (process-shared Event)
    clock,          \* time.time() / datetime.now(), seconds
    args,           \* parsed command line: workers, batch, chunk, run_time
    file,           \* the input file: a sequence of lines
    input_exists,   \* Path(args.input).exists()
    made,           \* what main() has set up: output directories, queues
    ing_pc,         \* ingestor position
    f_pos,          \* ingestor: file offset (index of the next line)
    lines,          \* ingestor: the chunk still to send
    msg_at,         \* ingestor: datetime.now() of the message being put
    events_sent,    \* ingestor: messages put on Q_raw
    Q_raw,          \* ingestion_queue
    par_pc,         \* parser worker -> position
    par_event,      \* parser worker -> the event it holds (or None)
    Q_parsed,       \* parsed_queue
    idx_pc,         \* indexer position
    batch,          \* indexer: in-memory batch
    indexed_count,  \* indexer: indexed_count
    error_tracking, \* indexer: per-IP ring, in dict insertion order
    events,         \* store: committed rows of table events
    alerts,         \* store: committed rows of table alerts
    txn,            \* store: rows inserted on the connection, not committed
    Q_alerts,       \* alert_queue
    put_alerts,     \* number of alert_queue.put calls so far
    dequeued,       \* history: the events the indexer took from Q_parsed
    formed,         \* history: the batches handed to _flush_batch
    failures,       \* store writes that have raised so far
    met_pc,         \* metrics collector position
    alerts_count,   \* metrics collector: alerts_count
    last_event_count, \* metrics collector: last_event_count
    main_pc,        \* main(): "check", "exit1", "start", "wait", "join",
                    \* "summary", "done"
    join_i,         \* main(): index into processes (start order, join loop)
    call,           \* utils.py: the last call of a function, with its result
    ip_cache        \* utils.py: the lru_cache of enrich_ip, oldest first

vars == << shutdown, clock, args, file, input_exists, made, ing_pc, f_pos, lines, msg_at,
           events_sent, Q_raw, par_pc, par_event, Q_parsed, idx_pc, batch,
           indexed_count, error_tracking, events, alerts, txn, Q_alerts,
           put_alerts, dequeued, formed, failures, met_pc, alerts_count,
           last_event_count, main_pc, join_i, call, ip_cache >>

ingVars  == << ing_pc, f_pos, lines, msg_at, events_sent >>
parVars  == << par_pc, par_event >>
idxVars  == << idx_pc, batch, indexed_count, error_tracking, dequeued,
              formed >>
dbVars   == << events, alerts, txn, failures >>
metVars  == << met_pc, alerts_count, last_event_count >>
mainVars == << main_pc, join_i >>
cfgVars  == << args, file, input_exists, made >>
utilVars == << call, ip_cache >>
pipeVars == << shutdown, clock, cfgVars, ingVars, parVars, idxVars, dbVars,
              metVars, mainVars, Q_raw, Q_parsed, Q_alerts, put_alerts >>

-----------------------------------------------------------------------------
(* Bounds of the model *)

MaxSent    == 3     \* Spec: the ingestor stalls after this many messages
MaxEvents  == 5     \* SpecAlert, SpecAlertOne: events that reach Q_parsed
MaxFail    == 1     \* store writes that may fail in one run
MaxTicks   == 2     \* SpecAlert, SpecAlertOne: clock ticks
MaxRun     == 2     \* SpecTimed: the ingestor stalls after this many messages
MaxFileLen == 3     \* SpecIngest: lines of the input file
MaxUrlLen  == 4     \* SpecUtils: characters of a generated url
MaxUaTokens == 2    \* SpecUtils: parts of a generated User-Agent
IpCacheSize == 2    \* stands for the 10000 of lru_cache(maxsize=10000)
MaxBurst   == 6     \* SpecMetrics: events that reach the indexer
RingPrefill == 98   \* SpecRing: suspicious events indexed before the run is explored
MaxRingEvents == 4  \* SpecRing: events that reach the indexer after them
RawFactor    == 1   \* stands for the 100 of maxsize=args.workers * 100
ParsedFactor == 1   \* stands for the 10 of maxsize=args.batch * 10

(* Program constants *)

Window    == 60     \* timedelta(seconds=60)
Threshold == 5      \* recent_errors >= 5
RingCap   == 100    \* deque(maxlen=100)

TickStep == Window   \* seconds per clock tick

None == [none |-> TRUE]

\* no function of utils.py has been called
NoCall == [fn |-> "none"]

\* the parser workers main() starts: for i in range(args.workers)
Workers == 1..args.workers
NumWorkers == args.workers

-----------------------------------------------------------------------------
(* Log lines and utils.py *)

\* Text is a sequence of one-character strings.

UpperCase ==
    << "A", "B", "C", "D", "E", "F", "G", "H", "I", "J", "K", "L", "M",
       "N", "O", "P", "Q", "R", "S", "T", "U", "V", "W", "X", "Y", "Z" >>

LowerCase ==
    << "a", "b", "c", "d", "e", "f", "g", "h", "i", "j", "k", "l", "m",
       "n", "o", "p", "q", "r", "s", "t", "u", "v", "w", "x", "y", "z" >>

\* c.lower() for one character
LowerChar(c) ==
    IF \E i \in DOMAIN UpperCase : UpperCase[i] = c
    THEN LowerCase[CHOOSE i \in DOMAIN UpperCase : UpperCase[i] = c]
    ELSE c

\* s.lower()
Lower(s) == [i \in DOMAIN s |-> LowerChar(s[i])]

\* s.startswith(p)
StartsWith(s, p) == Len(s) >= Len(p) /\ SubSeq(s, 1, Len(p)) = p

RECURSIVE ContainsFrom(_, _, _)
\* p is found in s at position i or later
ContainsFrom(s, p, i) ==
    IF i + Len(p) - 1 > Len(s) THEN FALSE
    ELSE IF \A k \in DOMAIN p : s[i + k - 1] = p[k] THEN TRUE
    ELSE ContainsFrom(s, p, i + 1)

\* p in s: s is searched from its first position on
Contains(s, p) == ContainsFrom(s, p, 1)

\* d.get(key, default)
Get(d, key, default) == IF key \in DOMAIN d THEN d[key] ELSE default

\* "/index.html"
IndexUrl ==
    << "/", "i", "n", "d", "e", "x", ".", "h", "t", "m", "l" >>

\* "/?cmd="
CmdUrl == << "/", "?", "c", "m", "d", "=" >>

\* "/"
RootUrl == << "/" >>

\* A line of the input file.  fmt: "clf" (combined log form), "err"
\* (error/notice form), "bad" (matches neither grammar), "empty" (blank).
Line(fmt, ip, status, url) ==
    [fmt |-> fmt, ip |-> ip, status |-> status, url |-> url]

Clean(ip)   == Line("clf", ip, 200, RootUrl)
Attack(ip)  == Line("clf", ip, 200, CmdUrl)
Failed(ip)  == Line("clf", ip, 500, RootUrl)
Garbage     == Line("bad", "", 0, << >>)
Blank       == Line("empty", "", 0, << >>)

\* attack_patterns: '../', 'script>', 'union select', '/etc/passwd', 'cmd='
attack_patterns ==
    << << ".", ".", "/" >>,
       << "s", "c", "r", "i", "p", "t", ">" >>,
       << "u", "n", "i", "o", "n", " ", "s", "e", "l", "e", "c", "t" >>,
       << "/", "e", "t", "c", "/", "p", "a", "s", "s", "w", "d" >>,
       << "c", "m", "d", "=" >> >>

\* mutant: the url is matched as it is, not lower-cased
is_suspicious_CaseSensitive(event) ==
    \/ Get(event, "status", 0) >= 400
    \/ LET url == Get(event, "url", << >>) IN
       \E i \in DOMAIN attack_patterns : Contains(url, attack_patterns[i])

\* status >= 400, or any(pattern in url.lower() for pattern in ...)
is_suspicious(event) ==
    \/ Get(event, "status", 0) >= 400
    \/ LET url == Lower(Get(event, "url", << >>)) IN
       \E i \in DOMAIN attack_patterns : Contains(url, attack_patterns[i])

\* mutant: 'safari' is tested before 'chrome'
enrich_user_agent_SafariFirst(user_agent) ==
    LET ua_lower == Lower(user_agent)
        has(word) == Contains(ua_lower, word)
    IN [browser |->
            IF has(<< "f", "i", "r", "e", "f", "o", "x" >>) THEN "Firefox"
            ELSE IF has(<< "s", "a", "f", "a", "r", "i" >>) THEN "Safari"
            ELSE IF has(<< "c", "h", "r", "o", "m", "e" >>) THEN "Chrome"
            ELSE IF has(<< "m", "s", "i", "e" >>)
                    \/ has(<< "t", "r", "i", "d", "e", "n", "t" >>)
                 THEN "Internet Explorer"
            ELSE "Other",
        os |->
            IF has(<< "w", "i", "n", "d", "o", "w", "s" >>) THEN "Windows"
            ELSE IF has(<< "m", "a", "c" >>)
                    \/ has(<< "d", "a", "r", "w", "i", "n" >>)
                 THEN "macOS"
            ELSE IF has(<< "l", "i", "n", "u", "x" >>) THEN "Linux"
            ELSE IF has(<< "a", "n", "d", "r", "o", "i", "d" >>)
                 THEN "Android"
            ELSE IF has(<< "i", "o", "s" >>)
                    \/ has(<< "i", "p", "h", "o", "n", "e" >>)
                    \/ has(<< "i", "p", "a", "d" >>)
                 THEN "iOS"
            ELSE "Other"]

\* the first of firefox, chrome, safari, msie/trident and the first of
\* windows, mac/darwin, linux, android, ios/iphone/ipad found in ua_lower
enrich_user_agent(user_agent) ==
    LET ua_lower == Lower(user_agent)
        has(word) == Contains(ua_lower, word)
    IN [browser |->
            IF has(<< "f", "i", "r", "e", "f", "o", "x" >>) THEN "Firefox"
            ELSE IF has(<< "c", "h", "r", "o", "m", "e" >>) THEN "Chrome"
            ELSE IF has(<< "s", "a", "f", "a", "r", "i" >>) THEN "Safari"
            ELSE IF has(<< "m", "s", "i", "e" >>)
                    \/ has(<< "t", "r", "i", "d", "e", "n", "t" >>)
                 THEN "Internet Explorer"
            ELSE "Other",
        os |->
            IF has(<< "w", "i", "n", "d", "o", "w", "s" >>) THEN "Windows"
            ELSE IF has(<< "m", "a", "c" >>)
                    \/ has(<< "d", "a", "r", "w", "i", "n" >>)
                 THEN "macOS"
            ELSE IF has(<< "l", "i", "n", "u", "x" >>) THEN "Linux"
            ELSE IF has(<< "a", "n", "d", "r", "o", "i", "d" >>)
                 THEN "Android"
            ELSE IF has(<< "i", "o", "s" >>)
                    \/ has(<< "i", "p", "h", "o", "n", "e" >>)
                    \/ has(<< "i", "p", "a", "d" >>)
                 THEN "iOS"
            ELSE "Other"]

\* the body of enrich_ip: the class of the address by its prefix
enrich_ip(ip) ==
    IF \/ StartsWith(ip, << "1", "0", "." >>)
       \/ StartsWith(ip, << "1", "9", "2", ".", "1", "6", "8", "." >>)
       \/ StartsWith(ip, << "1", "7", "2", "." >>)
    THEN [ip_class |-> "private", suspicious |-> FALSE]
    ELSE IF StartsWith(ip, << "1", "2", "7", "." >>)
    THEN [ip_class |-> "localhost", suspicious |-> FALSE]
    ELSE [ip_class |-> "public", suspicious |-> FALSE]

\* the position of the key in the cache, 0 when it is not there
CacheIndex(cache, key) ==
    IF \E i \in DOMAIN cache : cache[i].key = key
    THEN CHOOSE i \in DOMAIN cache : cache[i].key = key
    ELSE 0

\* the sequence without its i-th element
Without(seq, i) == SubSeq(seq, 1, i - 1) \o SubSeq(seq, i + 1, Len(seq))

\* mutant: a hit returns the most recently used entry, whatever its key
CachedEnrichIp_WrongEntry(cache, ip) ==
    LET i == CacheIndex(cache, ip) IN
    IF i # 0
    THEN [ret |-> cache[Len(cache)].value, hit |-> TRUE,
          cache |-> Append(Without(cache, i), cache[i])]
    ELSE LET value == enrich_ip(ip)
             added == Append(cache, [key |-> ip, value |-> value])
         IN [ret |-> value, hit |-> FALSE,
             cache |-> IF Len(added) > IpCacheSize THEN Tail(added)
                       ELSE added]

\* @lru_cache(maxsize=10000): a hit returns the stored result and makes the
\* entry the most recent; a miss runs the body, stores the result and, when
\* the cache is full, drops the least recently used entry
CachedEnrichIp(cache, ip) ==
    LET i == CacheIndex(cache, ip) IN
    IF i # 0
    THEN [ret |-> cache[i].value, hit |-> TRUE,
          cache |-> Append(Without(cache, i), cache[i])]
    ELSE LET value == enrich_ip(ip)
             added == Append(cache, [key |-> ip, value |-> value])
         IN [ret |-> value, hit |-> FALSE,
             cache |-> IF Len(added) > IpCacheSize THEN Tail(added)
                       ELSE added]

\* d.update(u)
Update(d, u) ==
    [k \in DOMAIN d \cup DOMAIN u |-> IF k \in DOMAIN u THEN u[k] ELSE d[k]]

\* mutant: the event is classified before the data of enrich_ip is merged
WorkerEvent_ClassifyFirst(event, ingested_at, cache) ==
    LET e1 == Update(event, [ingested_at |-> ingested_at])
        e2 == Update(e1, [suspicious |-> is_suspicious(e1)])
        r  == CachedEnrichIp(cache, e2.ip)
        e3 == Update(e2, r.ret)
        e4 == Update(e3, enrich_user_agent(Get(e3, "user_agent", << >>)))
    IN [event |-> e4, cache |-> r.cache]

\* parser_worker on a parsed event: ingested_at, event.update(enrich_ip),
\* event.update(enrich_user_agent), event['suspicious'] = is_suspicious
WorkerEvent(event, ingested_at, cache) ==
    LET e1 == Update(event, [ingested_at |-> ingested_at])
        r  == CachedEnrichIp(cache, e1.ip)
        e2 == Update(e1, r.ret)
        e3 == Update(e2, enrich_user_agent(Get(e2, "user_agent", << >>)))
        e4 == Update(e3, [suspicious |-> is_suspicious(e3)])
    IN [event |-> e4, cache |-> r.cache]

\* ---------------------------------------------------------------------
\* parse_apache_log on the text of a line

Digits == {"0", "1", "2", "3", "4", "5", "6", "7", "8", "9"}

Letters ==
    {UpperCase[i] : i \in DOMAIN UpperCase}
        \cup {LowerCase[i] : i \in DOMAIN LowerCase}

\* \w
WordChars == Letters \cup Digits \cup {"_"}

\* \s
White == {" ", "\t", "\n", "\r"}

RECURSIVE SpanIn(_, _, _)
\* [class]* from position i: the position after the longest run
SpanIn(s, i, class) ==
    IF i <= Len(s) /\ s[i] \in class THEN SpanIn(s, i + 1, class) ELSE i

RECURSIVE SpanNotIn(_, _, _)
\* [^class]* from position i: the position after the longest run
SpanNotIn(s, i, class) ==
    IF i <= Len(s) /\ s[i] \notin class THEN SpanNotIn(s, i + 1, class)
    ELSE i

\* the literal text stands at position i
At(s, i, text) ==
    /\ i >= 1
    /\ i + Len(text) - 1 <= Len(s)
    /\ SubSeq(s, i, i + Len(text) - 1) = text

\* s[i:j], the characters from position i up to, not including, j
Slice(s, i, j) == SubSeq(s, i, j - 1)

RECURSIVE LStrip(_)
LStrip(s) == IF s # << >> /\ Head(s) \in White THEN LStrip(Tail(s)) ELSE s

RECURSIVE RStrip(_)
RStrip(s) ==
    IF s # << >> /\ s[Len(s)] \in White
    THEN RStrip(SubSeq(s, 1, Len(s) - 1))
    ELSE s

\* s.strip()
Strip(s) == RStrip(LStrip(s))

RECURSIVE Split(_, _)
\* the parts of s between the characters of seps (s.split() with seps the
\* white space, where empty parts are left out)
Split(s, seps) ==
    LET i == SpanIn(s, 1, seps)
        j == SpanNotIn(s, i, seps)
    IN IF i > Len(s) THEN << >>
       ELSE << Slice(s, i, j) >> \o Split(SubSeq(s, j, Len(s)), seps)

DigitValue(c) ==
    CASE c = "0" -> 0 [] c = "1" -> 1 [] c = "2" -> 2 [] c = "3" -> 3
      [] c = "4" -> 4 [] c = "5" -> 5 [] c = "6" -> 6 [] c = "7" -> 7
      [] c = "8" -> 8 [] c = "9" -> 9

RECURSIVE Number(_)
\* the value of a text of digits
Number(digits) ==
    IF digits = << >> THEN 0
    ELSE 10 * Number(SubSeq(digits, 1, Len(digits) - 1))
            + DigitValue(digits[Len(digits)])

AllDigits(text) == text # << >> /\ \A i \in DOMAIN text : text[i] \in Digits

ValueError == [error |-> "ValueError"]

\* mutant: a text that begins with a digit is taken for a number
IntOk_Atoi(text) == text # << >> /\ text[1] \in Digits

\* int(text) does not raise ValueError: white space around, a sign, digits
\* with single underscores between them
IntOk(text) ==
    LET t == Strip(text)
        body == IF t # << >> /\ t[1] \in {"+", "-"} THEN Tail(t) ELSE t
    IN /\ body # << >>
       /\ \A i \in DOMAIN body :
             \/ body[i] \in Digits
             \/ /\ body[i] = "_"
                /\ 1 < i /\ i < Len(body)
                /\ body[i - 1] \in Digits /\ body[i + 1] \in Digits

\* int(text), where it does not raise
int(text) ==
    LET t == Strip(text)
        signed == t # << >> /\ t[1] \in {"+", "-"}
        body == IF signed THEN Tail(t) ELSE t
        value == Number(SelectSeq(body, LAMBDA c : c \in Digits))
    IN IF signed /\ t[1] = "-" THEN 0 - value ELSE value

\* %b, lower-cased
MonthNames ==
    << << "j", "a", "n" >>,
       << "f", "e", "b" >>,
       << "m", "a", "r" >>,
       << "a", "p", "r" >>,
       << "m", "a", "y" >>,
       << "j", "u", "n" >>,
       << "j", "u", "l" >>,
       << "a", "u", "g" >>,
       << "s", "e", "p" >>,
       << "o", "c", "t" >>,
       << "n", "o", "v" >>,
       << "d", "e", "c" >> >>

\* %a, lower-cased
DayNames ==
    << << "m", "o", "n" >>,
       << "t", "u", "e" >>,
       << "w", "e", "d" >>,
       << "t", "h", "u" >>,
       << "f", "r", "i" >>,
       << "s", "a", "t" >>,
       << "s", "u", "n" >> >>

\* the position of the text in the sequence of names, 0 if it is not one
NameIndex(names, text) ==
    IF \E i \in DOMAIN names : names[i] = Lower(text)
    THEN CHOOSE i \in DOMAIN names : names[i] = Lower(text)
    ELSE 0

\* a field of one or two digits (exactly width digits when width > 2) with
\* a value from lo to hi
FieldOk(text, width, lo, hi) ==
    /\ AllDigits(text)
    /\ IF width > 2 THEN Len(text) = width ELSE Len(text) <= 2
    /\ Number(text) >= lo
    /\ Number(text) <= hi

IsLeap(year) == (year % 4 = 0 /\ year % 100 # 0) \/ year % 400 = 0

DaysIn(year, month) ==
    IF month = 2 THEN (IF IsLeap(year) THEN 29 ELSE 28)
    ELSE IF month \in {4, 6, 9, 11} THEN 30
    ELSE 31

\* datetime(year, month, day, hour, minute, second) from the texts of the
\* fields, ValueError when a field is not of its form or out of range
MakeDatetime(day, month, year, time) ==
    LET hms == Split(time, {":"})
        m == NameIndex(MonthNames, month)
    IN IF /\ FieldOk(day, 2, 1, 31)
          /\ m # 0
          /\ FieldOk(year, 4, 1, 9999)
          /\ Len(hms) = 3
          /\ Len(time) = Len(hms[1]) + Len(hms[2]) + Len(hms[3]) + 2
          /\ FieldOk(hms[1], 2, 0, 23)
          /\ FieldOk(hms[2], 2, 0, 59)
          /\ FieldOk(hms[3], 2, 0, 59)
          /\ Number(day) <= DaysIn(Number(year), m)
       THEN [year |-> Number(year), month |-> m, day |-> Number(day),
             hour |-> Number(hms[1]), minute |-> Number(hms[2]),
             second |-> Number(hms[3])]
       ELSE ValueError

\* datetime.strptime(text, '%a %b %d %H:%M:%S %Y')
strptime_error(text) ==
    LET f == Split(text, White) IN
    IF /\ Len(f) = 5
       /\ text[1] \notin White /\ text[Len(text)] \notin White
       /\ NameIndex(DayNames, f[1]) # 0
    THEN MakeDatetime(f[3], f[2], f[5], f[4])
    ELSE ValueError

\* datetime.strptime(text, '%d/%b/%Y:%H:%M:%S')
strptime_clf(text) ==
    LET d == SpanNotIn(text, 1, {"/"})
        m == SpanNotIn(text, d + 1, {"/"})
        y == SpanNotIn(text, m + 1, {":"})
    IN IF y < Len(text)
       THEN MakeDatetime(Slice(text, 1, d), Slice(text, d + 1, m),
                         Slice(text, m + 1, y),
                         SubSeq(text, y + 1, Len(text)))
       ELSE ValueError

\* re.match(error_pattern, line): the groups timestamp_str, level, context
\* and message, or None.  has_context is FALSE where the group is None.
\*   ^\[([\w\s:/\+\-]+)\] \[(\w+)\](?:\s\[([^\]]+)\])?\s(.+)$
MatchError(s) ==
    LET t0 == 2
        t1 == SpanIn(s, t0, WordChars \cup White \cup {":", "/", "+", "-"})
        l0 == t1 + 3
        l1 == SpanIn(s, l0, WordChars)
        p  == l1 + 1
        c0 == p + 2
        c1 == SpanNotIn(s, c0, {"]"})
        Rest(i) ==          \* \s(.+)$ from position i
            /\ i + 1 <= Len(s)
            /\ s[i] \in White
            /\ \A k \in (i + 1)..Len(s) : s[k] # "\n"
        withContext ==
            /\ p + 1 <= Len(s)
            /\ s[p] \in White
            /\ s[p + 1] = "["
            /\ c1 > c0
            /\ c1 <= Len(s)
            /\ Rest(c1 + 1)
    IN IF /\ At(s, 1, << "[" >>)
          /\ t1 > t0
          /\ At(s, t1, << "]", " ", "[" >>)
          /\ l1 > l0
          /\ At(s, l1, << "]" >>)
          /\ withContext \/ Rest(p)
       THEN [timestamp_str |-> Slice(s, t0, t1),
             level |-> Slice(s, l0, l1),
             has_context |-> withContext,
             context |-> IF withContext THEN Slice(s, c0, c1) ELSE << >>,
             message |-> IF withContext THEN SubSeq(s, c1 + 2, Len(s))
                         ELSE SubSeq(s, p + 1, Len(s))]
       ELSE None

\* re.search(r'client\s([\d\.]+)', context): the group of the leftmost
\* match, or the empty text
ClientIp(context) ==
    LET word == << "c", "l", "i", "e", "n", "t" >>
        Found(i) ==
            /\ At(context, i, word)
            /\ i + 7 <= Len(context)
            /\ context[i + 6] \in White
            /\ context[i + 7] \in Digits \cup {"."}
        hits == {i \in DOMAIN context : Found(i)}
    IN IF hits = {} THEN << >>
       ELSE LET i == CHOOSE h \in hits : \A g \in hits : h <= g IN
            Slice(context, i + 7, SpanIn(context, i + 7, Digits \cup {"."}))

\* re.match(clf_pattern, line): the groups, or None.  has_tail is FALSE
\* where the groups referer and user_agent are None.
\*   ^(\S+) \S+ \S+ \[([\w:/]+\s[+\-]\d{4})\] "(\S+) (\S+) \S+" (\d{3})
\*   (\S+)(?: "([^"]*)" "([^"]*)")?
MatchClf(s) ==
    LET a1 == SpanNotIn(s, 1, White)
        a2 == SpanNotIn(s, a1 + 1, White)
        a3 == SpanNotIn(s, a2 + 1, White)
        t0 == a3 + 2
        t1 == SpanIn(s, t0, WordChars \cup {":", "/"})
        m0 == t1 + 9
        m1 == SpanNotIn(s, m0, White)
        u0 == m1 + 1
        u1 == SpanNotIn(s, u0, White)
        p0 == u1 + 1
        p1 == SpanNotIn(s, p0, White)
        st == p1 + 1
        b0 == st + 4
        b1 == SpanNotIn(s, b0, White)
        r0 == b1 + 2
        r1 == SpanNotIn(s, r0, {"\""})
        g0 == r1 + 3
        g1 == SpanNotIn(s, g0, {"\""})
        withTail ==
            /\ At(s, b1, << " ", "\"" >>)
            /\ At(s, r1, << "\"", " ", "\"" >>)
            /\ At(s, g1, << "\"" >>)
    IN IF /\ a1 > 1 /\ At(s, a1, << " " >>)
          /\ a2 > a1 + 1 /\ At(s, a2, << " " >>)
          /\ a3 > a2 + 1 /\ At(s, a3, << " ", "[" >>)
          /\ t1 > t0
          /\ t1 + 5 <= Len(s)
          /\ s[t1] \in White
          /\ s[t1 + 1] \in {"+", "-"}
          /\ \A k \in (t1 + 2)..(t1 + 5) : s[k] \in Digits
          /\ At(s, t1 + 6, << "]", " ", "\"" >>)
          /\ m1 > m0 /\ At(s, m1, << " " >>)
          /\ u1 > u0 /\ At(s, u1, << " " >>)
          /\ p1 - 1 > p0 /\ s[p1 - 1] = "\"" /\ At(s, p1, << " " >>)
          /\ st + 2 <= Len(s)
          /\ \A k \in st..(st + 2) : s[k] \in Digits
          /\ At(s, st + 3, << " " >>)
          /\ b1 > b0
       THEN [ip |-> Slice(s, 1, a1),
             timestamp_str |-> Slice(s, t0, t1 + 6),
             method |-> Slice(s, m0, m1),
             url |-> Slice(s, u0, u1),
             status |-> Slice(s, st, st + 3),
             bytes_sent |-> Slice(s, b0, b1),
             has_tail |-> withTail,
             referer |-> IF withTail THEN Slice(s, r0, r1) ELSE << >>,
             user_agent |-> IF withTail THEN Slice(s, g0, g1) ELSE << >>]
       ELSE None

\* message[:100]
UrlMax == 100

\* s[:n]
Take(s, n) == SubSeq(s, 1, IF Len(s) < n THEN Len(s) ELSE n)

\* the timestamp of an event: the parsed one, or datetime.now()
TimestampOr(parsed, now) ==
    IF parsed = ValueError THEN [now |-> now] ELSE parsed

\* mutant: a line whose timestamp cannot be parsed is given up
ParseText_DropBadTimestamp(text, now) ==
    LET line == Strip(text)
        e == MatchError(line)
        c == MatchClf(line)
    IN IF line = << >> THEN None
       ELSE IF e # None
       THEN IF strptime_error(e.timestamp_str) = ValueError THEN None
            ELSE
            [ip |-> ClientIp(e.context),
             timestamp |-> strptime_error(e.timestamp_str),
             method |-> << "L", "O", "G" >>,
             url |-> Take(e.message, UrlMax),
             status |-> IF e.level = << "e", "r", "r", "o", "r" >>
                        THEN 400 ELSE 200,
             bytes |-> 0,
             referer |-> e.context,
             user_agent |-> e.level]
       ELSE IF c # None
       THEN IF strptime_clf(Split(c.timestamp_str, White)[1]) = ValueError
            THEN None
            ELSE
            [ip |-> c.ip,
             timestamp |-> strptime_clf(Split(c.timestamp_str, White)[1]),
             method |-> c.method,
             url |-> c.url,
             status |-> int(c.status),
             bytes |-> IF c.bytes_sent = << "-" >> THEN 0
                       ELSE IF ~IntOk(c.bytes_sent) THEN 0
                       ELSE int(c.bytes_sent),
             referer |-> c.referer,
             user_agent |-> c.user_agent]
       ELSE None

\* parse_apache_log(line) on the text of the line, called at instant now:
\* the error/notice grammar first, then the combined log grammar
ParseText(text, now) ==
    LET line == Strip(text)
        e == MatchError(line)
        c == MatchClf(line)
    IN IF line = << >> THEN None
       ELSE IF e # None
       THEN [ip |-> ClientIp(e.context),
             timestamp |->
                 TimestampOr(strptime_error(e.timestamp_str), now),
             method |-> << "L", "O", "G" >>,
             url |-> Take(e.message, UrlMax),
             status |-> IF e.level = << "e", "r", "r", "o", "r" >>
                        THEN 400 ELSE 200,
             bytes |-> 0,
             referer |-> e.context,
             user_agent |-> e.level]
       ELSE IF c # None
       THEN [ip |-> c.ip,
             timestamp |->
                 TimestampOr(strptime_clf(Split(c.timestamp_str, White)[1]),
                             now),
             method |-> c.method,
             url |-> c.url,
             status |-> int(c.status),
             bytes |-> IF c.bytes_sent = << "-" >> THEN 0
                       ELSE IF ~IntOk(c.bytes_sent) THEN 0
                       ELSE int(c.bytes_sent),
             referer |-> c.referer,
             user_agent |-> c.user_agent]
       ELSE None

\* mutant: a line that matches neither grammar is parsed all the same
parse_apache_log_NoReject(line) ==
    [ip |-> line.ip, status |-> line.status, url |-> line.url]

\* None when the line matches neither grammar, else the parsed fields
parse_apache_log(line) ==
    IF line.fmt \in {"clf", "err"}
    THEN [ip |-> line.ip, status |-> line.status, url |-> line.url]
    ELSE None

-----------------------------------------------------------------------------
(* Queues (manager.Queue) *)

\* mutant: a queue that never reports full
QueueFull_Never(q, maxsize) == FALSE

\* Queue(maxsize): full only when maxsize > 0 and qsize() >= maxsize
QueueFull(q, maxsize) == maxsize > 0 /\ Len(q) >= maxsize

RawMax    == NumWorkers * RawFactor
ParsedMax == args.batch * ParsedFactor

-----------------------------------------------------------------------------
(* Ingestor *)

RECURSIVE ReadChunk_SkipFirst(_, _, _)
\* mutant: after the rewind the reader goes on with the second line
ReadChunk_SkipFirst(pos, n, acc) ==
    IF n = 0 THEN [lines |-> acc, pos |-> pos]
    ELSE IF pos > Len(file)
         THEN IF Len(file) = 0
              THEN [lines |-> acc, pos |-> 1]
              ELSE ReadChunk_SkipFirst(2, n - 1, acc)
         ELSE ReadChunk_SkipFirst(pos + 1, n - 1,
                 IF file[pos].fmt # "empty" THEN Append(acc, file[pos]) ELSE acc)

RECURSIVE ReadChunk(_, _, _)
\* the for-loop that reads one chunk: n readline() calls from offset pos
ReadChunk(pos, n, acc) ==
    IF n = 0 THEN [lines |-> acc, pos |-> pos]
    ELSE IF pos > Len(file)
         THEN \* end of file: f.seek(0) and read again
              IF Len(file) = 0
              THEN [lines |-> acc, pos |-> 1]
              ELSE ReadChunk(2, n - 1,
                      IF file[1].fmt # "empty" THEN Append(acc, file[1]) ELSE acc)
         ELSE ReadChunk(pos + 1, n - 1,
                 IF file[pos].fmt # "empty" THEN Append(acc, file[pos]) ELSE acc)

\* loop head: while not shutdown_event.is_set(), read a chunk
IngestorRead(maxSent) ==
    /\ ing_pc = "loop"
    /\ IF shutdown
       THEN /\ ing_pc' = "done"
            /\ UNCHANGED << f_pos, lines, msg_at >>
       ELSE LET r == ReadChunk(f_pos, args.chunk, << >>) IN
            /\ events_sent + Len(r.lines) <= maxSent
            /\ f_pos' = r.pos
            /\ lines' = r.lines
            /\ msg_at' = clock
            /\ ing_pc' = IF r.lines = << >> THEN "done" ELSE "put"
    /\ UNCHANGED << events_sent, shutdown, clock, cfgVars, utilVars, Q_raw, parVars,
                    Q_parsed, idxVars, dbVars, Q_alerts, put_alerts,
                    metVars, mainVars >>

\* ingestion_queue.put(message): blocks while the queue is full
IngestorPut ==
    /\ ing_pc = "put"
    /\ ~QueueFull(Q_raw, RawMax)
    /\ Q_raw' = Append(Q_raw, [id |-> events_sent + 1, line |-> Head(lines),
                               ingested_at |-> msg_at])
    /\ events_sent' = events_sent + 1
    /\ lines' = Tail(lines)
    /\ msg_at' = clock
    /\ ing_pc' = IF Tail(lines) = << >> THEN "check" ELSE "put"
    /\ UNCHANGED << f_pos, shutdown, clock, cfgVars, utilVars, parVars, Q_parsed,
                    idxVars, dbVars, Q_alerts, put_alerts, metVars, mainVars >>

\* after the chunk: if run_time > 0 and elapsed >= run_time: break
IngestorCheck ==
    /\ ing_pc = "check"
    /\ ing_pc' = IF args.run_time > 0 /\ clock >= args.run_time
                 THEN "done" ELSE "loop"
    /\ UNCHANGED << f_pos, lines, msg_at, events_sent, shutdown, clock,
                    cfgVars, utilVars, Q_raw, parVars, Q_parsed, idxVars, dbVars,
                    Q_alerts, put_alerts, metVars, mainVars >>

\* open(), readline() or the put raises: "except Exception" prints the
\* error and the process returns
IngestorIOError ==
    /\ ing_pc \in {"loop", "put"}
    /\ ing_pc' = "failed"
    /\ UNCHANGED << f_pos, lines, msg_at, events_sent, shutdown, clock,
                    cfgVars, utilVars, Q_raw, parVars, Q_parsed, idxVars, dbVars,
                    Q_alerts, put_alerts, metVars, mainVars >>

-----------------------------------------------------------------------------
(* Parser workers *)

\* the event a worker builds from a raw message (parse, enrich, classify)
Enrich(message) ==
    LET e == parse_apache_log(message.line) IN
    [id |-> message.id, ip |-> e.ip, status |-> e.status, url |-> e.url,
     suspicious |-> is_suspicious(e),
     ingested_at |-> message.ingested_at, indexed_at |-> -1]

\* loop head: while not shutdown_event.is_set()
ParserLoop(w) ==
    /\ par_pc[w] = "loop"
    /\ par_pc' = [par_pc EXCEPT ![w] = IF shutdown THEN "done" ELSE "get"]
    /\ UNCHANGED << par_event, shutdown, clock, cfgVars, utilVars, ingVars, Q_raw,
                    Q_parsed, idxVars, dbVars, Q_alerts, put_alerts,
                    metVars, mainVars >>

\* mutant: the get leaves the message on the queue
ParserGet_Peek(w) ==
    /\ par_pc[w] = "get"
    /\ Q_raw # << >>
    /\ parse_apache_log(Head(Q_raw).line) # None
    /\ par_event' = [par_event EXCEPT ![w] = Enrich(Head(Q_raw))]
    /\ par_pc' = [par_pc EXCEPT ![w] = "put"]
    /\ UNCHANGED << Q_raw, shutdown, clock, cfgVars, utilVars, ingVars, Q_parsed,
                    idxVars, dbVars, Q_alerts, put_alerts, metVars, mainVars >>

\* mutant: a line that matches neither grammar ends the worker
ParserGet_DieOnBadLine(w) ==
    /\ par_pc[w] = "get"
    /\ Q_raw # << >>
    /\ Q_raw' = Tail(Q_raw)
    /\ IF parse_apache_log(Head(Q_raw).line) # None
       THEN /\ par_event' = [par_event EXCEPT ![w] = Enrich(Head(Q_raw))]
            /\ par_pc' = [par_pc EXCEPT ![w] = "put"]
       ELSE /\ par_event' = par_event
            /\ par_pc' = [par_pc EXCEPT ![w] = "crashed"]
    /\ UNCHANGED << shutdown, clock, cfgVars, utilVars, ingVars, Q_parsed, idxVars,
                    dbVars, Q_alerts, put_alerts, metVars, mainVars >>

\* ingestion_queue.get(timeout=1) returns a message; parse it
ParserGet(w) ==
    /\ par_pc[w] = "get"
    /\ Q_raw # << >>
    /\ Q_raw' = Tail(Q_raw)
    /\ IF parse_apache_log(Head(Q_raw).line) # None
       THEN /\ par_event' = [par_event EXCEPT ![w] = Enrich(Head(Q_raw))]
            /\ par_pc' = [par_pc EXCEPT ![w] = "put"]
       ELSE /\ par_event' = par_event
            /\ par_pc' = [par_pc EXCEPT ![w] = "loop"]
    /\ UNCHANGED << shutdown, clock, cfgVars, utilVars, ingVars, Q_parsed, idxVars,
                    dbVars, Q_alerts, put_alerts, metVars, mainVars >>

\* the get times out (queue.Empty): break when shutdown is set
ParserTimeout(w) ==
    /\ par_pc[w] = "get"
    /\ Q_raw = << >>
    /\ par_pc' = [par_pc EXCEPT ![w] = IF shutdown THEN "done" ELSE "loop"]
    /\ UNCHANGED << par_event, shutdown, clock, cfgVars, utilVars, ingVars, Q_raw,
                    Q_parsed, idxVars, dbVars, Q_alerts, put_alerts,
                    metVars, mainVars >>

\* mutant: a worker that sees the shutdown signal discards its event
ParserPut_DropOnShutdown(w) ==
    /\ par_pc[w] = "put"
    /\ ~QueueFull(Q_parsed, ParsedMax)
    /\ Q_parsed' = IF shutdown THEN Q_parsed ELSE Append(Q_parsed, par_event[w])
    /\ par_event' = [par_event EXCEPT ![w] = None]
    /\ par_pc' = [par_pc EXCEPT ![w] = "loop"]
    /\ UNCHANGED << shutdown, clock, cfgVars, utilVars, ingVars, Q_raw, idxVars,
                    dbVars, Q_alerts, put_alerts, metVars, mainVars >>

\* parsed_queue.put(event): blocks while the queue is full
ParserPut(w) ==
    /\ par_pc[w] = "put"
    /\ ~QueueFull(Q_parsed, ParsedMax)
    /\ Q_parsed' = Append(Q_parsed, par_event[w])
    /\ par_event' = [par_event EXCEPT ![w] = None]
    /\ par_pc' = [par_pc EXCEPT ![w] = "loop"]
    /\ UNCHANGED << shutdown, clock, cfgVars, utilVars, ingVars, Q_raw, idxVars,
                    dbVars, Q_alerts, put_alerts, metVars, mainVars >>

-----------------------------------------------------------------------------
(* Store (sqlite connection of the indexer) *)

NoTxn == [events |-> << >>, alerts |-> << >>]

RECURSIVE IndexOfIp(_, _, _)
\* position of ip in the ring map from position i on, 0 when absent
IndexOfIp(et, ip, i) ==
    IF i > Len(et) THEN 0
    ELSE IF et[i].ip = ip THEN i ELSE IndexOfIp(et, ip, i + 1)

\* mutant: a full ring refuses the new instant
RingAppend_KeepOldest(ring, ts) ==
    IF Len(ring) >= RingCap THEN ring ELSE Append(ring, ts)

\* deque(maxlen=100).append(ts)
RingAppend(ring, ts) ==
    IF Len(ring) >= RingCap THEN Append(Tail(ring), ts) ELSE Append(ring, ts)

\* error_tracking[ip].append(ts) on a defaultdict
Track(et, ip, ts) ==
    LET i == IndexOfIp(et, ip, 1) IN
    IF i = 0 THEN Append(et, [ip |-> ip, ts |-> << ts >>])
    ELSE [et EXCEPT ![i].ts = RingAppend(et[i].ts, ts)]

\* mutant: every ring entry counts, whatever its age
RecentErrors_NoWindow(timestamps, now) == Len(timestamps)

RECURSIVE RecentErrors(_, _)
\* sum(1 for ts in timestamps if now - ts <= window)
RecentErrors(timestamps, now) ==
    IF timestamps = << >> THEN 0
    ELSE (IF now - Head(timestamps) <= Window THEN 1 ELSE 0)
         + RecentErrors(Tail(timestamps), now)

\* the alert dict built for one ip
MakeAlert(ip, count, now) ==
    [alert_type |-> "HIGH_ERROR_RATE", ip |-> ip, count |-> count,
     window_start |-> now - Window, window_end |-> now, created_at |-> now]

RECURSIVE NewAlerts_OffByOne(_, _)
\* mutant: the threshold test is off by one (recent_errors > 3)
NewAlerts_OffByOne(et, now) ==
    IF et = << >> THEN << >>
    ELSE LET n == RecentErrors(Head(et).ts, now) IN
         (IF n > Threshold - 2 THEN << MakeAlert(Head(et).ip, n, now) >> ELSE << >>)
         \o NewAlerts_OffByOne(Tail(et), now)

RECURSIVE NewAlerts(_, _)
\* the alerts _check_alerts creates, in dict order
NewAlerts(et, now) ==
    IF et = << >> THEN << >>
    ELSE LET n == RecentErrors(Head(et).ts, now) IN
         (IF n >= Threshold THEN << MakeAlert(Head(et).ip, n, now) >> ELSE << >>)
         \o NewAlerts(Tail(et), now)

-----------------------------------------------------------------------------
(* Indexer *)

\* where the indexer goes when an exception reaches the inner handler
AfterException == IF shutdown THEN "final" ELSE "loop"

\* loop head: while not shutdown_event.is_set()
IndexerLoop ==
    /\ idx_pc = "loop"
    /\ idx_pc' = IF shutdown THEN "final" ELSE "get"
    /\ UNCHANGED << batch, indexed_count, error_tracking, dequeued, formed,
                    shutdown,
                    clock, cfgVars, utilVars, ingVars, Q_raw, parVars, Q_parsed, dbVars,
                    Q_alerts, put_alerts, metVars, mainVars >>

\* mutant: indexed_at is the instant the indexer started, not now
IndexerGet_StaleStamp ==
    /\ idx_pc = "get"
    /\ Q_parsed # << >>
    /\ LET event == [Head(Q_parsed) EXCEPT !.indexed_at = 0] IN
       /\ Q_parsed' = Tail(Q_parsed)
       /\ batch' = Append(batch, event)
       /\ dequeued' = Append(dequeued, event)
       /\ error_tracking' = IF event.suspicious
                            THEN Track(error_tracking, event.ip, event.indexed_at)
                            ELSE error_tracking
       /\ idx_pc' = IF Len(batch) + 1 >= args.batch THEN "flush" ELSE "loop"
    /\ UNCHANGED << indexed_count, formed, shutdown, clock, cfgVars, utilVars, ingVars,
                    Q_raw, parVars, dbVars, Q_alerts, put_alerts, metVars,
                    mainVars >>

\* parsed_queue.get(timeout=1) returns an event: stamp, append, track
IndexerGet ==
    /\ idx_pc = "get"
    /\ Q_parsed # << >>
    /\ LET event == [Head(Q_parsed) EXCEPT !.indexed_at = clock] IN
       /\ Q_parsed' = Tail(Q_parsed)
       /\ batch' = Append(batch, event)
       /\ dequeued' = Append(dequeued, event)
       /\ error_tracking' = IF event.suspicious
                            THEN Track(error_tracking, event.ip, event.indexed_at)
                            ELSE error_tracking
       /\ idx_pc' = IF Len(batch) + 1 >= args.batch THEN "flush" ELSE "loop"
    /\ UNCHANGED << indexed_count, formed, shutdown, clock, cfgVars, utilVars, ingVars, Q_raw,
                    parVars, dbVars, Q_alerts, put_alerts, metVars, mainVars >>

\* the get times out (queue.Empty): break when shutdown is set
IndexerTimeout ==
    /\ idx_pc = "get"
    /\ Q_parsed = << >>
    /\ idx_pc' = AfterException
    /\ UNCHANGED << batch, indexed_count, error_tracking, dequeued, formed,
                    shutdown,
                    clock, cfgVars, utilVars, ingVars, Q_raw, parVars, Q_parsed, dbVars,
                    Q_alerts, put_alerts, metVars, mainVars >>

\* _flush_batch succeeds (executemany + commit), then the batch is cleared
IndexerFlush ==
    /\ idx_pc = "flush"
    /\ events' = events \o txn.events \o batch
    /\ alerts' = alerts \o txn.alerts
    /\ txn' = NoTxn
    /\ indexed_count' = indexed_count + Len(batch)
    /\ batch' = << >>
    /\ formed' = Append(formed, batch)
    /\ idx_pc' = "alerts"
    /\ UNCHANGED << error_tracking, dequeued, failures, shutdown, clock,
                    cfgVars, utilVars, ingVars, Q_raw, parVars, Q_parsed, Q_alerts,
                    put_alerts, metVars, mainVars >>

\* mutant: the alerts are evaluated after a flush that failed
IndexerFlushFail_Evaluates ==
    /\ idx_pc = "flush"
    /\ failures < MaxFail
    /\ failures' = failures + 1
    /\ formed' = Append(formed, batch)
    /\ idx_pc' = "alerts"
    /\ UNCHANGED << txn, batch, indexed_count, error_tracking, dequeued, events,
                    alerts, shutdown, clock, cfgVars, utilVars, ingVars, Q_raw, parVars,
                    Q_parsed, Q_alerts, put_alerts, metVars, mainVars >>

\* mutant: a failed flush discards the batch it could not write
IndexerFlushFail_DropBatch ==
    /\ idx_pc = "flush"
    /\ failures < MaxFail
    /\ batch' = << >>
    /\ failures' = failures + 1
    /\ formed' = Append(formed, batch)
    /\ idx_pc' = AfterException
    /\ UNCHANGED << txn, indexed_count, error_tracking, dequeued, events,
                    alerts, shutdown, clock, cfgVars, utilVars, ingVars, Q_raw, parVars,
                    Q_parsed, Q_alerts, put_alerts, metVars, mainVars >>

\* _flush_batch raises after inserting k rows (k = len: the commit raises);
\* the inner "except Exception" swallows it and the batch is kept
IndexerFlushFail ==
    /\ idx_pc = "flush"
    /\ failures < MaxFail
    /\ \E k \in 0..Len(batch) :
          txn' = [txn EXCEPT !.events = txn.events \o SubSeq(batch, 1, k)]
    /\ failures' = failures + 1
    /\ formed' = Append(formed, batch)
    /\ idx_pc' = AfterException
    /\ UNCHANGED << batch, indexed_count, error_tracking, dequeued, events,
                    alerts, shutdown, clock, cfgVars, utilVars, ingVars, Q_raw, parVars,
                    Q_parsed, Q_alerts, put_alerts, metVars, mainVars >>

\* _check_alerts: every alert is inserted, committed and put on alert_queue
IndexerCheckAlerts ==
    /\ idx_pc = "alerts"
    /\ LET new == NewAlerts(error_tracking, clock) IN
       /\ alerts' = alerts \o (IF new # << >> THEN txn.alerts ELSE << >>) \o new
       /\ events' = events \o (IF new # << >> THEN txn.events ELSE << >>)
       /\ txn' = IF new # << >> THEN NoTxn ELSE txn
       /\ Q_alerts' = Q_alerts \o new
       /\ put_alerts' = put_alerts + Len(new)
    /\ idx_pc' = "loop"
    /\ UNCHANGED << batch, indexed_count, error_tracking, dequeued, formed,
                    failures,
                    shutdown, clock, cfgVars, utilVars, ingVars, Q_raw, parVars,
                    Q_parsed, metVars, mainVars >>

\* _check_alerts raises at its j-th alert: the insert raises, or the commit
\* raises and leaves the row inserted but not committed
IndexerCheckAlertsFail ==
    /\ idx_pc = "alerts"
    /\ failures < MaxFail
    /\ LET new == NewAlerts(error_tracking, clock) IN
       \E j \in 1..Len(new), inserted \in BOOLEAN :
          LET done == SubSeq(new, 1, j - 1) IN
          /\ alerts' = alerts \o (IF done # << >> THEN txn.alerts ELSE << >>) \o done
          /\ events' = events \o (IF done # << >> THEN txn.events ELSE << >>)
          /\ txn' = [events |-> IF done # << >> THEN << >> ELSE txn.events,
                     alerts |-> (IF done # << >> THEN << >> ELSE txn.alerts)
                                \o (IF inserted THEN << new[j] >> ELSE << >>)]
          /\ Q_alerts' = Q_alerts \o done
          /\ put_alerts' = put_alerts + Len(done)
    /\ failures' = failures + 1
    /\ idx_pc' = AfterException
    /\ UNCHANGED << batch, indexed_count, error_tracking, dequeued, formed,
                    shutdown,
                    clock, cfgVars, utilVars, ingVars, Q_raw, parVars, Q_parsed,
                    metVars, mainVars >>

\* mutant: the finally block closes the connection without flushing
IndexerFinal_NoFlush ==
    /\ idx_pc = "final"
    /\ txn' = NoTxn
    /\ idx_pc' = "done"
    /\ UNCHANGED << batch, indexed_count, error_tracking, dequeued, formed,
                    failures,
                    events, alerts, shutdown, clock, cfgVars, utilVars, ingVars, Q_raw,
                    parVars, Q_parsed, Q_alerts, put_alerts, metVars,
                    mainVars >>

\* finally: flush the remaining batch, close the connection
IndexerFinal ==
    /\ idx_pc = "final"
    /\ IF batch # << >>
       THEN /\ events' = events \o txn.events \o batch
            /\ alerts' = alerts \o txn.alerts
            /\ indexed_count' = indexed_count + Len(batch)
            /\ formed' = Append(formed, batch)
       ELSE UNCHANGED << events, alerts, indexed_count, formed >>
    /\ txn' = NoTxn
    /\ idx_pc' = "done"
    /\ UNCHANGED << batch, error_tracking, dequeued, failures, shutdown, clock,
                    cfgVars, utilVars, ingVars, Q_raw, parVars, Q_parsed, Q_alerts,
                    put_alerts, metVars, mainVars >>

\* the flush in the finally block raises: the process dies with the exception
IndexerFinalFail ==
    /\ idx_pc = "final"
    /\ batch # << >>
    /\ failures < MaxFail
    /\ failures' = failures + 1
    /\ formed' = Append(formed, batch)
    /\ txn' = NoTxn
    /\ idx_pc' = "crashed"
    /\ UNCHANGED << batch, indexed_count, error_tracking, dequeued, events,
                    alerts, shutdown, clock, cfgVars, utilVars, ingVars, Q_raw, parVars,
                    Q_parsed, Q_alerts, put_alerts, metVars, mainVars >>

-----------------------------------------------------------------------------
(* Metrics collector *)

\* loop head: while not shutdown_event.is_set(): time.sleep(interval)
MetricsLoop ==
    /\ met_pc = "loop"
    /\ met_pc' = IF shutdown THEN "done" ELSE "sleep"
    /\ UNCHANGED << alerts_count, last_event_count, shutdown, clock, cfgVars,
                    utilVars, ingVars, Q_raw,
                    parVars, Q_parsed, idxVars, dbVars, Q_alerts, put_alerts,
                    mainVars >>

\* current_count = last_event_count + parsed_size
current_count == last_event_count + Len(Q_parsed)

\* the row the collector writes when it samples in this state: the queue
\* sizes are read, alert_queue is drained into alerts_count
MetricsRow ==
    [events_processed     |-> current_count,
     ingestion_queue_size |-> Len(Q_raw),
     parsed_queue_size    |-> Len(Q_parsed),
     alerts_count         |-> alerts_count + Len(Q_alerts)]

\* mutant: the alerts are counted and left on the queue
MetricsSample_NoDrain ==
    /\ met_pc = "sleep"
    /\ alerts_count' = alerts_count + Len(Q_alerts)
    /\ met_pc' = "loop"
    /\ UNCHANGED << last_event_count, shutdown, clock, cfgVars, utilVars, ingVars, Q_raw, parVars,
                    Q_parsed, idxVars, dbVars, Q_alerts, put_alerts,
                    mainVars >>

\* after the sleep: drain alert_queue, write one row; last_event_count is
\* not assigned
MetricsSample ==
    /\ met_pc = "sleep"
    /\ alerts_count' = MetricsRow.alerts_count
    /\ Q_alerts' = << >>
    /\ met_pc' = "loop"
    /\ UNCHANGED << last_event_count, shutdown, clock, cfgVars, utilVars, ingVars, Q_raw, parVars,
                    Q_parsed, idxVars, dbVars, put_alerts, mainVars >>

-----------------------------------------------------------------------------
(* main(): wait, shutdown, join *)

Exited == {"done", "failed", "crashed", "killed"}

\* processes, in the order main() appends them: ingestor, parser workers,
\* indexer, metrics collector
NumProcesses == NumWorkers + 3

PcOf(i) ==
    IF i = 1 THEN ing_pc
    ELSE IF i <= NumWorkers + 1 THEN par_pc[i - 1]
    ELSE IF i = NumWorkers + 2 THEN idx_pc
    ELSE met_pc

\* what main() sets up between the input check and the first start():
\* the output directories, the SIGINT handler, the manager and its queues
MadeByMain == {"db_dir", "metrics_dir", "handler", "queues"}

\* mutant: the output directories are made before the input is checked
MainCheckInput_MkdirFirst ==
    /\ main_pc = "check"
    /\ IF ~input_exists
       THEN main_pc' = "exit1" /\ made' = {"db_dir", "metrics_dir"}
       ELSE main_pc' = "start" /\ made' = MadeByMain
    /\ UNCHANGED << shutdown, clock, args, file, input_exists, utilVars,
                    ingVars, Q_raw,
                    parVars, Q_parsed, idxVars, dbVars, Q_alerts, put_alerts,
                    metVars, join_i >>

\* main() up to the first start(): a missing input file is sys.exit(1)
\* before anything is set up
MainCheckInput ==
    /\ main_pc = "check"
    /\ IF ~input_exists
       THEN main_pc' = "exit1" /\ made' = made
       ELSE main_pc' = "start" /\ made' = MadeByMain
    /\ UNCHANGED << shutdown, clock, args, file, input_exists, utilVars,
                    ingVars, Q_raw,
                    parVars, Q_parsed, idxVars, dbVars, Q_alerts, put_alerts,
                    metVars, join_i >>

\* main() starts the next process of its list: the ingestor, then the
\* parser workers, then the indexer, then the metrics collector
MainStart ==
    /\ main_pc = "start"
    /\ LET i == join_i + 1 IN
       /\ ing_pc' = IF i = 1 THEN "loop" ELSE ing_pc
       /\ par_pc' = [w \in Workers |-> IF i = w + 1 THEN "loop" ELSE par_pc[w]]
       /\ idx_pc' = IF i = NumWorkers + 2 THEN "loop" ELSE idx_pc
       /\ met_pc' = IF i = NumWorkers + 3 THEN "loop" ELSE met_pc
       /\ join_i' = i
       /\ main_pc' = IF i = NumProcesses THEN "wait" ELSE "start"
    /\ UNCHANGED << shutdown, clock, cfgVars, utilVars, f_pos, lines, msg_at,
                    events_sent, Q_raw, par_event, Q_parsed, batch,
                    indexed_count, error_tracking, dequeued, formed, dbVars,
                    Q_alerts, put_alerts, alerts_count,
                    last_event_count >>

\* signal_handler: SIGINT sets the shutdown event
Interrupt ==
    /\ main_pc = "wait"
    /\ ~shutdown
    /\ shutdown' = TRUE
    /\ UNCHANGED << clock, cfgVars, utilVars, ingVars, Q_raw, parVars, Q_parsed,
                    idxVars, dbVars, Q_alerts, put_alerts, metVars, mainVars >>

\* the wait loop ends (budget elapsed or shutdown requested);
\* main() sets the shutdown event
MainShutdown ==
    /\ main_pc = "wait"
    /\ shutdown \/ clock >= args.run_time
    /\ shutdown' = TRUE
    /\ main_pc' = "join"
    /\ join_i' = 1
    /\ UNCHANGED << clock, cfgVars, utilVars, ingVars, Q_raw, parVars, Q_parsed,
                    idxVars, dbVars, Q_alerts, put_alerts, metVars >>

\* p.join(timeout=2) returns with the process exited
MainJoin ==
    /\ main_pc = "join"
    /\ PcOf(join_i) \in Exited
    /\ IF join_i = NumProcesses
       THEN main_pc' = "summary" /\ join_i' = join_i
       ELSE main_pc' = main_pc /\ join_i' = join_i + 1
    /\ UNCHANGED << shutdown, clock, cfgVars, utilVars, ingVars, Q_raw, parVars,
                    Q_parsed, idxVars, dbVars, Q_alerts, put_alerts, metVars >>

\* mutant: the join times out and the process is left running
MainTerminate_NoKill ==
    /\ main_pc = "join"
    /\ PcOf(join_i) \notin Exited
    /\ IF join_i = NumProcesses
       THEN main_pc' = "summary" /\ join_i' = join_i
       ELSE main_pc' = main_pc /\ join_i' = join_i + 1
    /\ UNCHANGED << shutdown, clock, cfgVars, utilVars, ingVars, Q_raw, parVars,
                    Q_parsed, idxVars, dbVars, Q_alerts, put_alerts, metVars >>

\* the join times out with the process alive: p.terminate()
MainTerminate ==
    /\ main_pc = "join"
    /\ PcOf(join_i) \notin Exited
    /\ ing_pc' = IF join_i = 1 THEN "killed" ELSE ing_pc
    /\ par_pc' = [w \in Workers |->
                     IF join_i = w + 1 THEN "killed" ELSE par_pc[w]]
    /\ idx_pc' = IF join_i = NumWorkers + 2 THEN "killed" ELSE idx_pc
    /\ txn' = IF join_i = NumWorkers + 2 THEN NoTxn ELSE txn
    /\ met_pc' = IF join_i = NumWorkers + 3 THEN "killed" ELSE met_pc
    /\ IF join_i = NumProcesses
       THEN main_pc' = "summary" /\ join_i' = join_i
       ELSE main_pc' = main_pc /\ join_i' = join_i + 1
    /\ UNCHANGED << shutdown, clock, cfgVars, utilVars, f_pos, lines, msg_at,
                    events_sent, Q_raw, par_event, Q_parsed, batch,
                    indexed_count, error_tracking, dequeued, formed, events, alerts,
                    failures, Q_alerts, put_alerts, alerts_count,
                    last_event_count >>

\* mutant: the summary empties the events table after counting
MainSummary_Purge ==
    /\ main_pc = "summary"
    /\ main_pc' = "done"
    /\ events' = << >>
    /\ UNCHANGED << join_i, shutdown, clock, cfgVars, utilVars, ingVars, Q_raw, parVars,
                    Q_parsed, idxVars, alerts, txn, failures, Q_alerts,
                    put_alerts, metVars >>

\* the run summary: SELECT COUNT(*) on both tables
MainSummary ==
    /\ main_pc = "summary"
    /\ main_pc' = "done"
    /\ UNCHANGED << join_i, shutdown, clock, cfgVars, utilVars, ingVars, Q_raw, parVars,
                    Q_parsed, idxVars, dbVars, Q_alerts, put_alerts, metVars >>

\* time passes
Tick(maxClock) ==
    /\ clock + TickStep <= maxClock
    /\ clock' = clock + TickStep
    /\ UNCHANGED << shutdown, cfgVars, utilVars, ingVars, Q_raw, parVars, Q_parsed,
                    idxVars, dbVars, Q_alerts, put_alerts, metVars, mainVars >>

-----------------------------------------------------------------------------
(* The pipeline from its start *)

Files ==
    { << Attack("1.2.3.4"), Clean("10.0.0.1") >>,
      << Failed("9.9.9.9"), Garbage, Blank >> }

\* the pipeline once main() has started every process
StartWorkers(workers, batches, chunks, run_times, files) ==
    /\ shutdown = FALSE
    /\ clock = 0
    /\ args \in [workers : workers, batch : batches, chunk : chunks,
                 run_time : run_times]
    /\ file \in files
    /\ input_exists = TRUE
    /\ made = MadeByMain
    /\ ing_pc = "loop"
    /\ f_pos = 1
    /\ lines = << >>
    /\ msg_at = 0
    /\ events_sent = 0
    /\ Q_raw = << >>
    /\ par_pc = [w \in Workers |-> "loop"]
    /\ par_event = [w \in Workers |-> None]
    /\ Q_parsed = << >>
    /\ idx_pc = "loop"
    /\ batch = << >>
    /\ indexed_count = 0
    /\ error_tracking = << >>
    /\ events = << >>
    /\ alerts = << >>
    /\ txn = NoTxn
    /\ Q_alerts = << >>
    /\ put_alerts = 0
    /\ dequeued = << >>
    /\ formed = << >>
    /\ failures = 0
    /\ met_pc = "loop"
    /\ alerts_count = 0
    /\ last_event_count = 0
    /\ main_pc = "wait"
    /\ join_i = 0

\* --workers 2
StartPipeline(batches, chunks, run_times, files) ==
    StartWorkers({2}, batches, chunks, run_times, files)

\* the state once main() has started every process
Start(batches, chunks, run_times, files) ==
    /\ StartPipeline(batches, chunks, run_times, files)
    /\ call = NoCall
    /\ ip_cache = << >>

\* --batch 1 or 2, --rate 10 (chunks of one line), --run-time 60
Init == Start({1, 2}, {1}, {TickStep}, Files)

Next ==
    \/ IngestorRead(MaxSent)
    \/ IngestorPut
    \/ IngestorCheck
    \/ \E w \in Workers : ParserLoop(w)
    \/ \E w \in Workers : ParserGet(w)
    \/ \E w \in Workers : ParserTimeout(w)
    \/ \E w \in Workers : ParserPut(w)
    \/ IndexerLoop
    \/ IndexerGet
    \/ IndexerTimeout
    \/ IndexerFlush
    \/ IndexerFlushFail
    \/ IndexerCheckAlerts
    \/ IndexerFinal
    \/ IndexerFinalFail
    \/ MetricsLoop
    \/ MetricsSample
    \/ Interrupt
    \/ MainShutdown
    \/ MainJoin
    \/ MainTerminate
    \/ MainSummary

Spec == Init /\ [][Next]_vars

\* --batch 2: full batches and the partial batch of the shutdown
InitBatchTwo == Start({2}, {1}, {TickStep}, Files)

SpecBatchTwo == InitBatchTwo /\ [][Next]_vars

-----------------------------------------------------------------------------
(* The indexer and its alert engine under every input sequence and timing *)

AlertLines == { Attack("1.2.3.4"), Failed("9.9.9.9"), Clean("1.2.3.4") }

\* a worker's parsed_queue.put(event) for a line the ingestor stamped at
\* msg_at: the ingestor and the workers reduced to what the indexer sees
EventArrives(maxEvents) ==
    /\ events_sent < maxEvents
    /\ ~QueueFull(Q_parsed, ParsedMax)
    /\ \E line \in AlertLines :
          Q_parsed' = Append(Q_parsed,
                             Enrich([id |-> events_sent + 1, line |-> line,
                                     ingested_at |-> msg_at]))
    /\ events_sent' = events_sent + 1
    /\ UNCHANGED << ing_pc, f_pos, lines, msg_at, shutdown, clock, cfgVars, utilVars,
                    Q_raw, parVars, idxVars, dbVars, Q_alerts, put_alerts,
                    metVars, mainVars >>

InitAlert == Start({1, 2}, {1}, {MaxTicks * TickStep}, {<< >>})

NextAlert ==
    \/ EventArrives(MaxEvents)
    \/ IndexerLoop
    \/ IndexerGet
    \/ IndexerTimeout
    \/ IndexerFlush
    \/ IndexerCheckAlerts
    \/ IndexerCheckAlertsFail
    \/ IndexerFinal
    \/ Interrupt
    \/ Tick(MaxTicks * TickStep)

SpecAlert == InitAlert /\ [][NextAlert]_vars

\* --batch 1: every event is flushed and evaluated as it is dequeued
InitAlertOne == Start({1}, {1}, {MaxTicks * TickStep}, {<< >>})

SpecAlertOne == InitAlertOne /\ [][NextAlert]_vars

-----------------------------------------------------------------------------
(* The alert engine and the metrics collector *)

\* --batch 1
InitMetrics == Start({1}, {1}, {TickStep}, {<< >>})

NextMetrics ==
    \/ EventArrives(MaxBurst)
    \/ IndexerLoop
    \/ IndexerGet
    \/ IndexerTimeout
    \/ IndexerFlush
    \/ IndexerCheckAlerts
    \/ IndexerCheckAlertsFail
    \/ IndexerFinal
    \/ MetricsLoop
    \/ MetricsSample
    \/ Interrupt

SpecMetrics == InitMetrics /\ [][NextMetrics]_vars

-----------------------------------------------------------------------------
(* The indexer after a long burst of one IP: the ring at its capacity *)

BurstIp == "1.2.3.4"

\* the k-th event of the burst, as the indexer stamped it at instant 0
BurstEvent(k) ==
    [Enrich([id |-> k, line |-> Attack(BurstIp), ingested_at |-> 0])
        EXCEPT !.indexed_at = 0]

\* the alerts the evaluations after the flushes 5..n of the burst created
BurstAlerts(n) ==
    IF n < Threshold THEN << >>
    ELSE [k \in 1..(n - Threshold + 1) |->
             MakeAlert(BurstIp, k + Threshold - 1, 0)]

\* --batch 1: the state in which the indexer has dequeued, written and
\* evaluated n suspicious events of one IP, all at instant 0, and is back
\* at its loop head
AfterBurst(n) ==
    /\ shutdown = FALSE
    /\ clock = 0
    /\ args = [workers |-> 2, batch |-> 1, chunk |-> 1,
               run_time |-> MaxTicks * TickStep]
    /\ file = << >>
    /\ input_exists = TRUE
    /\ made = MadeByMain
    /\ ing_pc = "loop"
    /\ f_pos = 1
    /\ lines = << >>
    /\ msg_at = 0
    /\ events_sent = n
    /\ Q_raw = << >>
    /\ par_pc = [w \in Workers |-> "loop"]
    /\ par_event = [w \in Workers |-> None]
    /\ Q_parsed = << >>
    /\ idx_pc = "loop"
    /\ batch = << >>
    /\ indexed_count = n
    /\ error_tracking = << [ip |-> BurstIp, ts |-> [k \in 1..n |-> 0]] >>
    /\ events = [k \in 1..n |-> BurstEvent(k)]
    /\ alerts = BurstAlerts(n)
    /\ txn = NoTxn
    /\ Q_alerts = BurstAlerts(n)
    /\ put_alerts = Len(BurstAlerts(n))
    /\ dequeued = [k \in 1..n |-> BurstEvent(k)]
    /\ formed = [k \in 1..n |-> << BurstEvent(k) >>]
    /\ failures = 0
    /\ met_pc = "loop"
    /\ alerts_count = 0
    /\ last_event_count = 0
    /\ main_pc = "wait"
    /\ join_i = 0

InitRing == AfterBurst(RingPrefill) /\ call = NoCall /\ ip_cache = << >>

RingLines == { Attack(BurstIp), Failed("9.9.9.9") }

\* a worker's parsed_queue.put(event) while the burst goes on
BurstArrives ==
    /\ events_sent < RingPrefill + MaxRingEvents
    /\ ~QueueFull(Q_parsed, ParsedMax)
    /\ \E line \in RingLines :
          Q_parsed' = Append(Q_parsed,
                             Enrich([id |-> events_sent + 1, line |-> line,
                                     ingested_at |-> msg_at]))
    /\ events_sent' = events_sent + 1
    /\ UNCHANGED << ing_pc, f_pos, lines, msg_at, shutdown, clock, cfgVars, utilVars,
                    Q_raw, parVars, idxVars, dbVars, Q_alerts, put_alerts,
                    metVars, mainVars >>

NextRing ==
    \/ BurstArrives
    \/ IndexerLoop
    \/ IndexerGet
    \/ IndexerTimeout
    \/ IndexerFlush
    \/ IndexerCheckAlerts
    \/ Tick(MaxTicks * TickStep)

SpecRing == InitRing /\ [][NextRing]_vars

-----------------------------------------------------------------------------
(* The pipeline with --batch 0 among its configurations *)

\* --batch 0 or 2, --rate 30 (chunks of three lines)
InitQueues ==
    Start({0, 2}, {3}, {TickStep},
          {<< Attack("1.2.3.4"), Clean("10.0.0.1"), Failed("9.9.9.9") >>})

SpecQueues == InitQueues /\ [][Next]_vars

-----------------------------------------------------------------------------
(* Properties *)

Range(seq) == {seq[i] : i \in DOMAIN seq}

Ids(seq) == [i \in DOMAIN seq |-> seq[i].id]

NoDuplicates(seq) == \A i, j \in DOMAIN seq : i # j => seq[i] # seq[j]

\* every non-empty line of the file matches one of the two grammars
AllParseable == \A i \in DOMAIN file : file[i].fmt # "bad"

\* every stage has returned from its function: none was terminated by
\* main(), none died of an exception
ExitedOnOwn ==
    /\ ing_pc = "done"
    /\ \A w \in Workers : par_pc[w] = "done"
    /\ idx_pc = "done"
    /\ met_pc = "done"

\* the batch in the indexer's memory (gone once the process has ended)
LiveBatch == IF idx_pc \in Exited THEN << >> ELSE batch

\* C1: when every stage has exited on its own, no store write has failed
\* and every line of the file is parseable, the rows of the events table
\* plus what is left on Q_raw and on Q_parsed are as many as the messages
\* the ingestor put on Q_raw.
C1_NoEventLost ==
    (ExitedOnOwn /\ failures = 0 /\ AllParseable)
        => Len(events) + Len(Q_raw) + Len(Q_parsed) = events_sent

\* C1 witness: a clean exit of every stage with rows persisted and a
\* residue left on both queues
C1_Witness ==
    /\ ExitedOnOwn /\ failures = 0 /\ AllParseable
    /\ events_sent = MaxSent
    /\ Len(events) >= 1 /\ Len(Q_raw) >= 1 /\ Len(Q_parsed) >= 1

\* C2: once main() has joined every stage, Q_raw and Q_parsed are empty.
\* Stated for the runs most favourable to the claim: every stage exited on
\* its own and no store write failed.
C2_ShutdownDrains ==
    (main_pc = "done" /\ ExitedOnOwn /\ failures = 0)
        => (Q_raw = << >> /\ Q_parsed = << >>)

\* C3: while no store write has failed, every message is in one place only:
\* no id occurs twice among Q_raw, the workers' hands, Q_parsed, the batch
\* and the rows of the events table (so no two workers took the same
\* message and no message has two rows).
C3_ExactlyOnce ==
    failures = 0 =>
        /\ NoDuplicates(Ids(Q_raw \o Q_parsed \o LiveBatch \o events))
        /\ \A w \in Workers : par_event[w] # None =>
              /\ par_event[w].id \notin Range(Ids(Q_raw \o Q_parsed \o LiveBatch \o events))
              /\ \A v \in Workers \ {w} :
                    par_event[v] # None => par_event[v].id # par_event[w].id

\* C3 witness: two workers hold different messages at the same time while a
\* third message is already persisted
C3_Witness ==
    /\ failures = 0
    /\ \A w \in Workers : par_pc[w] = "put"
    /\ Len(events) >= 1

\* C4: when the indexer has returned after the shutdown signal, every event
\* it took from Q_parsed is a row of the events table.
C4_PartialBatchFlushed ==
    idx_pc = "done" => \A i \in DOMAIN dequeued : dequeued[i] \in Range(events)

\* C4 witness: the indexer returned after flushing a batch that was neither
\* empty nor full
C4_Witness ==
    /\ idx_pc = "done" /\ shutdown
    /\ 0 < Len(batch) /\ Len(batch) < args.batch
    /\ \A i \in DOMAIN batch : batch[i] \in Range(events)

BlockedKeepsItem ==
    /\ (ing_pc = "put" /\ Len(Q_raw) >= RawMax)
          => \/ ing_pc' = "killed"
             \/ ing_pc' = "put" /\ lines' = lines /\ events_sent' = events_sent
                /\ Len(Q_raw') <= Len(Q_raw)
    /\ \A w \in Workers :
          (args.batch >= 1 /\ par_pc[w] = "put" /\ Len(Q_parsed) >= ParsedMax)
          => \/ par_pc'[w] = "killed"
             \/ par_pc'[w] = "put" /\ par_event'[w] = par_event[w]
                /\ Len(Q_parsed') <= Len(Q_parsed)

C10_FailureTerminates ==
    [][failures > 0 => dequeued' = dequeued]_vars

IPs == {l.ip : l \in AlertLines}

\* the suspicious events of ip among seq whose indexed_at lies in [t, t + 60]
InWindow(seq, ip, t) ==
    {j \in DOMAIN seq : /\ seq[j].ip = ip /\ seq[j].suspicious
                        /\ seq[j].indexed_at >= t
                        /\ seq[j].indexed_at - t <= 60}

\* seq holds at least n suspicious events of ip whose indexed_at span <= 60 s
HasBurst(seq, ip, n) ==
    \E i \in DOMAIN seq :
        /\ seq[i].ip = ip /\ seq[i].suspicious
        /\ Cardinality(InWindow(seq, ip, seq[i].indexed_at)) >= n

\* every alert there is: committed rows, rows inserted, messages on Q_alerts
AllAlerts == alerts \o txn.alerts \o Q_alerts

\* the ring of ip, empty when the map has none
RingOf(ip) ==
    LET i == IndexOfIp(error_tracking, ip, 1) IN
    IF i = 0 THEN << >> ELSE error_tracking[i].ts

\* the entries ts of ring with now - ts <= 60
CountWithin(ring, now) == Cardinality({k \in DOMAIN ring : now - ring[k] <= 60})

\* C5: once a burst of at least 5 suspicious events of one IP within 60 s is
\* in the events table and the indexer has finished that flush (it is back
\* in its loop, or has returned), the alerts table has a row for that IP.
\* Stated for runs without a store failure.
C5_BurstRaisesAlert ==
    \A ip \in IPs :
        (idx_pc \in {"loop", "get", "done"} /\ failures = 0
            /\ HasBurst(events, ip, 5))
        => \E a \in Range(alerts) : a.ip = ip

\* C6: an IP that has never had more than 4 suspicious events inside a
\* 60 s window of indexed_at instants has no alert, persisted or queued.
C6_NoAlertBelowThreshold ==
    \A ip \in IPs :
        ~HasBurst(dequeued, ip, 5) => \A a \in Range(AllAlerts) : a.ip # ip

\* C6 witness: 5 suspicious events of one IP, spread over more than 60 s,
\* have all been flushed and evaluated, and there is no alert
C6_Witness ==
    \E ip \in IPs :
        /\ ~HasBurst(dequeued, ip, 5)
        /\ Cardinality({j \in DOMAIN events :
                           events[j].ip = ip /\ events[j].suspicious}) >= 5
        /\ idx_pc = "loop" /\ batch = << >>
        /\ AllAlerts = << >>

\* the alerts a step adds have the count of the ring at that instant
CountExact ==
    \A a \in Range(AllAlerts') \ Range(AllAlerts) :
        /\ a.created_at = clock
        /\ a.count = CountWithin(RingOf(a.ip), clock)

\* C7: every alert has kind HIGH_ERROR_RATE, count >= 5, a window of 60 s
\* that ends at created_at, and the count of its IP's ring entries ts with
\* now - ts <= 60 at the instant it was evaluated.
C7_AlertWellFormed ==
    /\ [](\A a \in Range(AllAlerts) :
             /\ a.alert_type = "HIGH_ERROR_RATE"
             /\ a.count >= 5
             /\ a.window_end - a.window_start = 60
             /\ a.window_end = a.created_at)
    /\ [][CountExact]_vars

\* C7 witness: an alert whose count includes an entry exactly 60 s old
C7_Witness ==
    \E a \in Range(alerts) :
        /\ a.count = 5
        /\ a.window_start \in Range(RingOf(a.ip))
        /\ a \in Range(Q_alerts)

\* C8: every flush is followed by an evaluation that gives each IP whose
\* ring holds at least 5 instants of the last 60 s exactly one new alert
\* row: the evaluation after a full batch, and the flush of the remaining
\* batch before the indexer returns.  Stated for runs without a store
\* failure.
C8_EveryFlushEvaluates ==
    [][(/\ failures' = 0
        /\ \/ idx_pc = "alerts" /\ idx_pc' # "alerts"
           \/ idx_pc = "final" /\ idx_pc' = "done" /\ batch # << >>)
       => \A ip \in IPs :
             CountWithin(RingOf(ip), clock) >= 5
             => Cardinality({k \in (Len(alerts) + 1)..Len(alerts') :
                                alerts'[k].ip = ip}) = 1]_vars

RECURSIVE Concats(_)
\* the tables that hold some of the batches bs whole, in order, and nothing
\* else
Concats(bs) ==
    IF bs = << >> THEN { << >> }
    ELSE LET rest == Concats(Tail(bs)) IN
         rest \cup { Head(bs) \o t : t \in rest }

\* C11: the events table always consists of whole batches: its rows are the
\* rows of some of the batches the indexer handed to _flush_batch, each of
\* these batches complete, and no row of any other batch.
C11_WholeOrAbsent == events \in Concats(formed)


-----------------------------------------------------------------------------
(* The pipeline with the clock running up to the run-time budget *)

TimedFiles ==
    { << Clean("10.0.0.1") >>, << Garbage, Clean("10.0.0.1") >> }

\* --batch 1, --rate 10, --run-time 0 or 60
InitTimed == Start({1}, {1}, {0, TickStep}, TimedFiles)

NextTimed ==
    \/ IngestorRead(MaxRun)
    \/ IngestorPut
    \/ IngestorCheck
    \/ \E w \in Workers : ParserLoop(w)
    \/ \E w \in Workers : ParserGet(w)
    \/ \E w \in Workers : ParserTimeout(w)
    \/ \E w \in Workers : ParserPut(w)
    \/ IndexerLoop
    \/ IndexerGet
    \/ IndexerTimeout
    \/ IndexerFlush
    \/ IndexerCheckAlerts
    \/ IndexerFinal
    \/ MetricsLoop
    \/ MetricsSample
    \/ Interrupt
    \/ MainShutdown
    \/ MainJoin
    \/ MainTerminate
    \/ MainSummary
    \/ Tick(args.run_time)

SpecTimed == InitTimed /\ [][NextTimed]_vars

\* the events in flight or persisted: in a worker's hands, on Q_parsed, in
\* the batch, inserted, committed
Parsed ==
    (Range(Q_parsed) \cup Range(LiveBatch) \cup Range(txn.events)
        \cup Range(events) \cup {par_event[w] : w \in Workers}) \ {None}

\* the ingested_at instants carried by message id, raw or parsed
StampsOf(id) ==
    {m.ingested_at : m \in {x \in Range(Q_raw) \cup Parsed : x.id = id}}

\* no step changes the ingested_at a message carries
StampKept ==
    \A id \in 1..events_sent : StampsOf(id) # {} => StampsOf(id)' \subseteq StampsOf(id)

\* C12: every event the indexer has stamped (in the batch, inserted or
\* committed) has ingested_at <= indexed_at; ingested_at is at most the
\* instant of the put on Q_raw, and no step changes the ingested_at of a
\* message between that put and the events table.
C12_IngestedBeforeIndexed ==
    /\ [](/\ \A e \in Range(LiveBatch) \cup Range(txn.events) \cup Range(events) :
                e.ingested_at <= e.indexed_at
          /\ \A m \in Range(Q_raw) \cup Parsed : m.ingested_at <= clock)
    /\ [][StampKept]_vars

\* C12 witness: a persisted event ingested before a clock tick and indexed
\* after it, next to one ingested and indexed after the tick
C12_Witness ==
    /\ \E e \in Range(events) : e.ingested_at < e.indexed_at
    /\ \E e \in Range(events) : e.ingested_at > 0 /\ e.ingested_at = e.indexed_at

-----------------------------------------------------------------------------
(* The ingestor on every small file, chunk size and budget *)

IngestLines == { Clean("10.0.0.1"), Failed("9.9.9.9"), Blank }

IngestFiles == UNION { [1..n -> IngestLines] : n \in 0..MaxFileLen }

\* a worker's ingestion_queue.get(timeout=1) returns a message: the workers
\* reduced to what the ingestor sees of them
RawTaken ==
    /\ Q_raw # << >>
    /\ Q_raw' = Tail(Q_raw)
    /\ UNCHANGED << shutdown, clock, cfgVars, utilVars, ingVars, parVars, Q_parsed,
                    idxVars, dbVars, Q_alerts, put_alerts, metVars, mainVars >>

\* --rate 10, 20 or 30 (chunks of 1, 2 or 3 lines), --run-time 0 or 60
InitIngest == Start({1}, {1, 2, 3}, {0, TickStep}, IngestFiles)

NextIngest ==
    \/ IngestorRead(2 * MaxSent)
    \/ IngestorPut
    \/ IngestorCheck
    \/ RawTaken
    \/ Interrupt
    \/ MainShutdown
    \/ Tick(args.run_time)

SpecIngest == InitIngest /\ [][NextIngest]_vars

\* the non-empty lines of the file, in file order
NonEmpty == SelectSeq(file, LAMBDA l : l.fmt # "empty")

\* the k-th line of the endless cyclic repetition of the non-empty lines
Cyclic(k) == NonEmpty[((k - 1) % Len(NonEmpty)) + 1]

\* C13: the k-th message the ingestor puts on Q_raw carries the k-th line of
\* the endless cyclic repetition of the file's non-empty lines, and Q_raw
\* holds the messages in the order of their puts; so every enqueued line is
\* a line of the file.
C13_CyclicReplay ==
    /\ [](/\ \A i \in DOMAIN Q_raw :
                /\ NonEmpty # << >>
                /\ Q_raw[i].line = Cyclic(Q_raw[i].id)
                /\ Q_raw[i].line \in Range(file)
          /\ \A i \in DOMAIN Q_raw : i > 1 => Q_raw[i].id = Q_raw[i - 1].id + 1)
    /\ [][events_sent' # events_sent
            => /\ events_sent' = events_sent + 1
               /\ Q_raw' = Append(Q_raw, Q_raw'[Len(Q_raw')])
               /\ Q_raw'[Len(Q_raw')].id = events_sent']_vars

\* C13 witness: a chunk of two lines that spans the end of the file, in a
\* file with an empty line: the third message is the first line again
C13_Witness ==
    /\ args.chunk = 2
    /\ file = << Clean("10.0.0.1"), Blank, Failed("9.9.9.9") >>
    /\ \E i \in DOMAIN Q_raw : Q_raw[i].id = 3 /\ Q_raw[i].line = file[1]

\* C14: with a run-time budget, an ingestor that has stopped was stopped by
\* the shutdown signal or by the budget, unless the file has no non-empty
\* line at all: empty lines never end it.
C14_BlankLinesDoNotStop ==
    (ing_pc = "done" /\ args.run_time > 0)
        => \/ shutdown
           \/ clock >= args.run_time
           \/ NonEmpty = << >>

\* C15: with a run-time budget of 0 the ingestor never rewinds: at no point
\* has it put more messages on Q_raw than the file has non-empty lines (and
\* when it stops at the end of the file it has put exactly that many).
C15_ZeroBudgetReadsOnce ==
    args.run_time = 0 => events_sent <= Len(NonEmpty)

\* a run that the budget ended and that left nothing behind: main() is
\* through, every stage returned on its own, no store write failed, both
\* queues are empty and the ingestor has read the whole file at least once
CompleteRun ==
    /\ main_pc = "done" /\ ExitedOnOwn /\ failures = 0
    /\ args.run_time > 0 /\ clock >= args.run_time
    /\ Q_raw = << >> /\ Q_parsed = << >>
    /\ events_sent >= Len(NonEmpty)

\* the lines of the file that match one of the two grammars
ParseableLines == {i \in DOMAIN file : file[i].fmt \in {"clf", "err"}}

\* the messages put on Q_raw so far whose line matches one of the grammars
ParseableSent == {k \in 1..events_sent : Cyclic(k).fmt \in {"clf", "err"}}

-----------------------------------------------------------------------------
(* The pipeline while main() starts its processes *)

\* main() has created the queues and started no process yet
InitStart ==
    /\ shutdown = FALSE
    /\ clock = 0
    /\ args \in [workers : {2}, batch : {1, 2}, chunk : {1},
                 run_time : {TickStep}]
    /\ file \in Files
    /\ input_exists = TRUE
    /\ made = MadeByMain
    /\ ing_pc = "new"
    /\ f_pos = 1
    /\ lines = << >>
    /\ msg_at = 0
    /\ events_sent = 0
    /\ Q_raw = << >>
    /\ par_pc = [w \in Workers |-> "new"]
    /\ par_event = [w \in Workers |-> None]
    /\ Q_parsed = << >>
    /\ idx_pc = "new"
    /\ batch = << >>
    /\ indexed_count = 0
    /\ error_tracking = << >>
    /\ events = << >>
    /\ alerts = << >>
    /\ txn = NoTxn
    /\ Q_alerts = << >>
    /\ put_alerts = 0
    /\ dequeued = << >>
    /\ formed = << >>
    /\ failures = 0
    /\ met_pc = "new"
    /\ alerts_count = 0
    /\ last_event_count = 0
    /\ main_pc = "start"
    /\ join_i = 0
    /\ call = NoCall
    /\ ip_cache = << >>

NextStart ==
    \/ MainStart
    \/ IngestorRead(MaxRun)
    \/ IngestorPut
    \/ IngestorCheck
    \/ \E w \in Workers : ParserLoop(w)
    \/ \E w \in Workers : ParserGet(w)
    \/ \E w \in Workers : ParserTimeout(w)
    \/ \E w \in Workers : ParserPut(w)
    \/ IndexerLoop
    \/ IndexerGet
    \/ IndexerTimeout
    \/ IndexerFlush
    \/ IndexerCheckAlerts
    \/ MetricsLoop
    \/ MetricsSample

SpecStart == InitStart /\ [][NextStart]_vars

\* C17: the ingestor runs only when every parser worker runs, a parser
\* worker runs only when the indexer and the metrics collector run, and
\* Q_raw holds a message only when every parser worker has been started.
C17_DependencyOrder ==
    /\ ing_pc # "new" => \A w \in Workers : par_pc[w] # "new"
    /\ (\E w \in Workers : par_pc[w] # "new")
          => (idx_pc # "new" /\ met_pc # "new")
    /\ Q_raw # << >> => \A w \in Workers : par_pc[w] # "new"

\* main() runs whenever it can, and time passes until the budget is reached
FairMain ==
    /\ WF_vars(Tick(args.run_time))
    /\ WF_vars(MainShutdown)
    /\ WF_vars(MainJoin)
    /\ WF_vars(MainTerminate)
    /\ WF_vars(MainSummary)

SpecTimedFair == SpecTimed /\ FairMain

\* main() leaves its wait loop only for the join loop, and only when the
\* budget has elapsed or the shutdown signal is set
LeavesWaitInOrder ==
    (main_pc = "wait" /\ main_pc' # "wait")
        => (main_pc' = "join" /\ (shutdown \/ clock >= args.run_time))

\* C18: main() leaves its wait loop when the budget has elapsed or an
\* interrupt has set the signal, and then sets the signal; the join loop has
\* passed only processes that exited or were terminated; the summary is read
\* only when every process has exited or been terminated; the signal, once
\* set, stays set; and main() always gets to the end of the summary.
C18_ShutdownSequence ==
    /\ [](main_pc \in {"join", "summary", "done"} => shutdown)
    /\ [](main_pc = "join" =>
             \A i \in 1..(join_i - 1) : PcOf(i) \in Exited)
    /\ [](main_pc \in {"summary", "done"} =>
             \A i \in 1..NumProcesses : PcOf(i) \in Exited)
    /\ [][shutdown => shutdown']_vars
    /\ [][LeavesWaitInOrder]_vars
    /\ <>(main_pc = "done")

\* C18 witness: the budget elapsed without an interrupt, main() terminated
\* a stage that was still alive, joined one that had returned, and read the
\* summary
C18_Witness ==
    /\ main_pc = "done"
    /\ args.run_time > 0 /\ clock >= args.run_time
    /\ ing_pc = "killed"
    /\ idx_pc = "done"
    /\ events # << >>

\* the ingestor waits in its put on a full Q_raw and no worker is left to
\* take a message from it
IngestorStuck ==
    /\ ing_pc = "put"
    /\ QueueFull(Q_raw, RawMax)
    /\ \A w \in Workers : par_pc[w] \in Exited

\* worker w waits in its put on a full Q_parsed and the indexer has left
\* its loop
ParserStuck(w) ==
    /\ par_pc[w] = "put"
    /\ QueueFull(Q_parsed, ParsedMax)
    /\ idx_pc \in Exited \cup {"final"}

\* C19: once the shutdown signal is set, every stage can still get to the
\* point where it observes the signal and returns: none is left waiting in a
\* queue operation that cannot complete any more (a put on a full queue
\* whose consumers have all gone).
C19_ShutdownAlwaysObserved ==
    shutdown => (~IngestorStuck /\ \A w \in Workers : ~ParserStuck(w))

\* worker w takes from Q_raw a line that matches neither grammar
TakesBadLine(w) ==
    /\ par_pc[w] = "get" /\ par_pc'[w] # "get"
    /\ Q_raw # << >> /\ Q_raw' = Tail(Q_raw)
    /\ Head(Q_raw).line.fmt = "bad"

\* the worker puts nothing, holds nothing and is back at its loop head; no
\* other stage and no table is touched
DroppedLocally(w) ==
    /\ par_pc'[w] = "loop"
    /\ par_event'[w] = None
    /\ \A v \in Workers \ {w} : par_pc'[v] = par_pc[v] /\ par_event'[v] = par_event[v]
    /\ UNCHANGED << Q_parsed, ingVars, idxVars, dbVars, metVars, Q_alerts,
                    put_alerts, shutdown >>

\* C20: the step in which a worker takes a line that matches neither
\* grammar puts nothing on Q_parsed, leaves the worker alive at its loop
\* head and changes nothing of any other stage; nothing downstream of the
\* workers ever stems from such a line.
C20_MalformedDroppedLocally ==
    /\ [](\A e \in Parsed : Cyclic(e.id).fmt \in {"clf", "err"})
    /\ [][\A w \in Workers : TakesBadLine(w) => DroppedLocally(w)]_vars

\* C20 witness: the garbage line is gone without a trace, the line after it
\* is a row, and both workers are still running
C20_Witness ==
    /\ file = << Garbage, Clean("10.0.0.1") >>
    /\ events_sent = 2 /\ Q_raw = << >>
    /\ \A e \in Parsed : e.id = 2
    /\ \E e \in Range(events) : e.id = 2
    /\ ~shutdown
    /\ \A w \in Workers : par_pc[w] \in {"loop", "get"}

-----------------------------------------------------------------------------
(* main() from its first line, with the input file present or missing *)

\* the arguments are parsed; nothing is set up, no process exists
InitEntry ==
    /\ shutdown = FALSE
    /\ clock = 0
    /\ args \in [workers : {2}, batch : {1, 2}, chunk : {1},
                 run_time : {TickStep}]
    /\ input_exists \in BOOLEAN
    /\ file \in (IF input_exists THEN Files ELSE { << >> })
    /\ made = {}
    /\ ing_pc = "new"
    /\ f_pos = 1
    /\ lines = << >>
    /\ msg_at = 0
    /\ events_sent = 0
    /\ Q_raw = << >>
    /\ par_pc = [w \in Workers |-> "new"]
    /\ par_event = [w \in Workers |-> None]
    /\ Q_parsed = << >>
    /\ idx_pc = "new"
    /\ batch = << >>
    /\ indexed_count = 0
    /\ error_tracking = << >>
    /\ events = << >>
    /\ alerts = << >>
    /\ txn = NoTxn
    /\ Q_alerts = << >>
    /\ put_alerts = 0
    /\ dequeued = << >>
    /\ formed = << >>
    /\ failures = 0
    /\ met_pc = "new"
    /\ alerts_count = 0
    /\ last_event_count = 0
    /\ main_pc = "check"
    /\ join_i = 0
    /\ call = NoCall
    /\ ip_cache = << >>

NextEntry ==
    \/ MainCheckInput
    \/ NextStart

SpecEntry == InitEntry /\ [][NextEntry]_vars

\* nothing exists: no output directory, no queue, no process (the indexer
\* makes the database and the metrics collector the metrics file when they
\* start), no row
NothingMade ==
    /\ made = {}
    /\ ing_pc = "new" /\ idx_pc = "new" /\ met_pc = "new"
    /\ \A w \in Workers : par_pc[w] = "new"
    /\ Q_raw = << >> /\ Q_parsed = << >> /\ Q_alerts = << >>
    /\ events = << >> /\ alerts = << >> /\ txn = NoTxn

\* C21: with the input file missing main() does nothing but exit with
\* code 1: in every state of such a run no output directory, queue, process,
\* database or metrics file exists, and main() is at its input check or has
\* exited with 1; exit code 1 occurs for a missing input file only.
C21_MissingInputFailsFast ==
    /\ ~input_exists => (main_pc \in {"check", "exit1"} /\ NothingMade)
    /\ main_pc = "exit1" => ~input_exists

\* C21 witness: main() has exited with code 1
C21_Witness == main_pc = "exit1" /\ ~input_exists /\ NothingMade

-----------------------------------------------------------------------------
(* The pipeline with an ingestor whose I/O may fail *)

NextIOError ==
    \/ NextTimed
    \/ IngestorIOError

SpecIOError == InitTimed /\ [][NextIOError]_vars

\* the ingestor ends on an I/O error and nothing else changes: the other
\* stages are where they were, the queues hold what they held, the
\* shutdown signal is as it was
FailureIsLocal ==
    (ing_pc # "failed" /\ ing_pc' = "failed")
        => UNCHANGED << shutdown, Q_raw, parVars, Q_parsed, idxVars, dbVars,
                        Q_alerts, metVars, mainVars >>

\* C22: an I/O error ends the ingestor and touches nothing else; and when
\* the run is over (main() through, the other stages returned on their own,
\* no store failure) every message the ingestor had put on Q_raw has been
\* taken by a worker, and every parseable one is a row of the events table.
C22_IngestorFailureIsolated ==
    /\ [][FailureIsLocal]_vars
    /\ []((/\ ing_pc = "failed" /\ main_pc = "done" /\ failures = 0
           /\ \A w \in Workers : par_pc[w] = "done"
           /\ idx_pc = "done" /\ met_pc = "done")
          => /\ Q_raw = << >>
             /\ \A k \in ParseableSent : \E e \in Range(events) : e.id = k)

\* ---------------------------------------------------------------------
\* utils.py called on its own: each step is one call of one function, with
\* an argument drawn from a bounded set; call holds the argument and the
\* result.

\* all texts of at most n characters over the alphabet S
TextsUpTo(S, n) == UNION {[1..k -> S] : k \in 0..n}

\* "/admin/../../../etc/passwd"
PasswdUrl ==
    << "/", "a", "d", "m", "i", "n", "/", ".", ".", "/", ".", ".", "/",
       ".", ".", "/", "e", "t", "c", "/", "p", "a", "s", "s", "w", "d" >>

UrlAlphabet == {".", "/", "c", "M", "d", "="}

UrlSamples ==
    { IndexUrl, RootUrl, CmdUrl, PasswdUrl,
      << "/", "?", "C", "M", "D", "=", "r", "m" >>,
      << "/", "<", "S", "C", "R", "I", "P", "T", ">", "a", "<", "/", "S", "c", "r", "i", "p", "t", ">" >>,
      << "/", "q", "?", "a", "=", "1", " ", "U", "N", "I", "O", "N", " ", "S", "E", "L", "E", "C", "T", " ", "x" >>,
      << "/", "u", "n", "i", "o", "n", "+", "s", "e", "l", "e", "c", "t" >>,
      << "/", "E", "T", "C", "/", "P", "A", "S", "S", "W", "D" >>,
      << "/", "e", "t", "c", "/", "p", "a", "s", "s", "w" >>,
      << "/", "s", "c", "r", "i", "p", "t" >>,
      << "/", "a", "/", ".", ".", "%", "2", "f" >> }

Urls == TextsUpTo(UrlAlphabet, MaxUrlLen) \cup UrlSamples

Statuses == {0, 200, 399, 400, 404, 500}

\* events handed to is_suspicious; the last two lack a key
SuspiciousInputs ==
    [status : Statuses, url : Urls]
        \cup {[status |-> 404], [url |-> PasswdUrl], [url |-> IndexUrl]}

\* a call about to be made
Request(fn, arg) == [fn |-> fn, arg |-> arg, done |-> FALSE]

Requested(fn) == call.fn = fn /\ ~call.done

CallIsSuspicious ==
    /\ Requested("is_suspicious")
    /\ LET event == call.arg IN
       call' = [fn |-> call.fn, arg |-> event, done |-> TRUE,
                ret |-> is_suspicious(event), after |-> event]
    /\ UNCHANGED << pipeVars, ip_cache >>

\* parts of User-Agent headers
UaTokens ==
    { << "F", "i", "r", "e", "f", "o", "x", "/", "9", "1", ".", "0" >>,
      << "F", "I", "R", "E", "F", "O", "X" >>,
      << "C", "h", "r", "o", "m", "e", "/", "9", "1", ".", "0" >>,
      << "S", "a", "f", "a", "r", "i", "/", "5", "3", "7", ".", "3", "6" >>,
      << "M", "S", "I", "E", " ", "9", ".", "0" >>,
      << "T", "r", "i", "d", "e", "n", "t", "/", "7", ".", "0" >>,
      << "W", "i", "n", "d", "o", "w", "s", " ", "N", "T", " ", "1", "0", ".", "0" >>,
      << "M", "a", "c", "i", "n", "t", "o", "s", "h" >>,
      << "D", "a", "r", "w", "i", "n", "/", "2", "0" >>,
      << "X", "1", "1", ";", " ", "L", "i", "n", "u", "x" >>,
      << "A", "n", "d", "r", "o", "i", "d", " ", "1", "1" >>,
      << "i", "P", "h", "o", "n", "e" >>,
      << "i", "P", "a", "d" >>,
      << "i", "O", "S" >>,
      << "c", "u", "r", "l", "/", "7", ".", "0" >>,
      << "M", "o", "z", "i", "l", "l", "a", "/", "5", ".", "0" >> }

RECURSIVE Join(_)
\* the texts of a sequence, one space between them
Join(texts) ==
    IF texts = << >> THEN << >>
    ELSE IF Len(texts) = 1 THEN texts[1]
    ELSE texts[1] \o << " " >> \o Join(Tail(texts))

\* 'Mozilla/5.0 (Windows NT 10.0; Win64; x64; rv:91.0) Gecko/20100101
\* Firefox/91.0'
FirefoxWindowsUa ==
    << "M", "o", "z", "i", "l", "l", "a", "/", "5", ".", "0", " ", "(",
       "W", "i", "n", "d", "o", "w", "s", " ", "N", "T", " ", "1", "0",
       ".", "0", ";", " ", "W", "i", "n", "6", "4", ";", " ", "x", "6",
       "4", ";", " ", "r", "v", ":", "9", "1", ".", "0", ")", " ", "G",
       "e", "c", "k", "o", "/", "2", "0", "1", "0", "0", "1", "0", "1",
       " ", "F", "i", "r", "e", "f", "o", "x", "/", "9", "1", ".", "0" >>

\* 'Mozilla/5.0 (Macintosh; Intel Mac OS X 10_15_7) AppleWebKit/537.36
\* Chrome/91.0'
ChromeMacUa ==
    << "M", "o", "z", "i", "l", "l", "a", "/", "5", ".", "0", " ", "(",
       "M", "a", "c", "i", "n", "t", "o", "s", "h", ";", " ", "I", "n",
       "t", "e", "l", " ", "M", "a", "c", " ", "O", "S", " ", "X", " ",
       "1", "0", "_", "1", "5", "_", "7", ")", " ", "A", "p", "p", "l",
       "e", "W", "e", "b", "K", "i", "t", "/", "5", "3", "7", ".", "3",
       "6", " ", "C", "h", "r", "o", "m", "e", "/", "9", "1", ".", "0" >>

\* a Chrome agent that names Safari too
ChromeSafariUa ==
    << "M", "o", "z", "i", "l", "l", "a", "/", "5", ".", "0", " ", "(",
       "X", "1", "1", ";", " ", "L", "i", "n", "u", "x", " ", "x", "8",
       "6", "_", "6", "4", ")", " ", "A", "p", "p", "l", "e", "W", "e",
       "b", "K", "i", "t", "/", "5", "3", "7", ".", "3", "6", " ", "C",
       "h", "r", "o", "m", "e", "/", "9", "1", ".", "0", " ", "S", "a",
       "f", "a", "r", "i", "/", "5", "3", "7", ".", "3", "6" >>

UserAgents ==
    {Join(tokens) : tokens \in TextsUpTo(UaTokens, MaxUaTokens)}
        \cup {FirefoxWindowsUa, ChromeMacUa, ChromeSafariUa}

CallEnrichUserAgent ==
    /\ Requested("enrich_user_agent")
    /\ call' = [fn |-> call.fn, arg |-> call.arg, done |-> TRUE,
                ret |-> enrich_user_agent(call.arg)]
    /\ UNCHANGED << pipeVars, ip_cache >>

\* addresses of each class, and some that nearly have a private prefix
IpTexts ==
    { << "1", "0", ".", "0", ".", "0", ".", "1" >>,
      << "1", "9", "2", ".", "1", "6", "8", ".", "1", ".", "1" >>,
      << "1", "7", "2", ".", "1", "6", ".", "0", ".", "1" >>,
      << "1", "2", "7", ".", "0", ".", "0", ".", "1" >>,
      << "8", ".", "8", ".", "8", ".", "8" >>,
      << "1", ".", "2", ".", "3", ".", "4" >>,
      << "1", "0", "0", ".", "1", ".", "1", ".", "1" >>,
      << "1", "9", "2", ".", "1", "6", "9", ".", "0", ".", "1" >>,
      << >> }

\* one call of enrich_ip after another, with any address each time;
\* evicted tells whether an entry has been dropped from the cache so far
CallEnrichIp ==
    /\ call.fn = "enrich_ip"
    /\ \E ip \in IpTexts :
          /\ call.done \/ ip = call.arg
          /\ LET r == CachedEnrichIp(ip_cache, ip) IN
             /\ call' = [fn |-> call.fn, arg |-> ip, done |-> TRUE,
                         ret |-> r.ret, hit |-> r.hit,
                         evicted |->
                             \/ call.done /\ call.evicted
                             \/ ~r.hit /\ Len(ip_cache) = IpCacheSize]
             /\ ip_cache' = r.cache
    /\ UNCHANGED pipeVars

\* ---------------------------------------------------------------------
\* Lines written from their fields

RECURSIVE ToText(_)
\* the decimal digits of a natural number
ToText(n) ==
    LET digit == << "0", "1", "2", "3", "4", "5", "6", "7", "8", "9" >>
    IN IF n < 10 THEN << digit[n + 1] >>
       ELSE ToText(n \div 10) \o << digit[(n % 10) + 1] >>

\* '01/Jul/1995:00:00:01 -0400' and two dates that no calendar has
ClfTimestamps ==
    { << "0", "1", "/", "J", "u", "l", "/", "1", "9", "9", "5", ":", "0",
       "0", ":", "0", "0", ":", "0", "1", " ", "-", "0", "4", "0", "0" >>,
    << "3", "1", "/", "F", "e", "b", "/", "1", "9", "9", "5", ":", "0",
       "0", ":", "0", "0", ":", "0", "1", " ", "+", "0", "0", "0", "0" >>,
    << "0", "1", "/", "J", "u", "l", "/", "1", "9", "9", "5", ":", "2",
       "4", ":", "0", "0", ":", "0", "1", " ", "-", "0", "4", "0", "0" >> }

ClfIps ==
    { << "1", "9", "2", ".", "1", "6", "8", ".", "1", ".", "1" >>,
    << ":", ":", "1" >> }

ClfUrls ==
    { << "/", "i", "n", "d", "e", "x", ".", "h", "t", "m", "l" >>,
    << "/", "a", "?", "b", "=", "\"", "c", "\"" >> }

ClfMethods ==
    { << "G", "E", "T" >>,
    << "P", "O", "S", "T" >> }

ClfStatuses == {200, 404, 500}

\* the bytes field: a number, '-', or something that is no number
ClfBytes ==
    [num : {0, 7, 1234}]
        \cup [text : { << "-" >>,
                << "a", "b", "c" >>,
                << "1", "2", "x" >> }]

\* the referer and the user agent, when the line has them
ClfTails ==
    {[has_tail |-> FALSE]}
        \cup [has_tail : {TRUE},
              referer : { << "-" >>,
                         << "h", "t", "t", "p", ":", "/", "/", "x", "/" >> },
              user_agent : { << "M", "o", "z", "i", "l", "l", "a", "/",
                               "5", ".", "0" >>,
                            << "c", "u", "r", "l", "/", "7", ".", "0",
                               " ", "(", "a", " ", "b", ")" >>,
                            << >> }]

\* white space before the line and a newline after it, or none
Paddings == {FALSE, TRUE}

ClfFields ==
    [ip : ClfIps, timestamp : ClfTimestamps, method : ClfMethods,
     url : ClfUrls, status : ClfStatuses, bytes : ClfBytes, tail : ClfTails,
     padded : Paddings]

BytesText(b) == IF "num" \in DOMAIN b THEN ToText(b.num) ELSE b.text

Pad(f, text) ==
    IF f.padded THEN << " ", " " >> \o text \o << "\n" >> ELSE text

\* ip - - [timestamp] "METHOD url HTTP/1.0" status bytes ("referer" "ua")?
FormatClf(f) ==
    Pad(f,
        f.ip \o << " ", "-", " ", "-", " ", "[" >> \o f.timestamp
            \o << "]", " ", "\"" >> \o f.method \o << " " >> \o f.url
            \o << " ", "H", "T", "T", "P", "/", "1", ".", "0", "\"", " " >>
            \o ToText(f.status) \o << " " >> \o BytesText(f.bytes)
            \o (IF f.tail.has_tail
                THEN << " ", "\"" >> \o f.tail.referer
                        \o << "\"", " ", "\"" >> \o f.tail.user_agent
                        \o << "\"" >>
                ELSE << >>))

\* 'Sun Dec 04 04:47:44 2005', a date no calendar has, and no date at all
ErrTimestamps ==
    { << "S", "u", "n", " ", "D", "e", "c", " ", "0", "4", " ", "0", "4",
       ":", "4", "7", ":", "4", "4", " ", "2", "0", "0", "5" >>,
    << "S", "u", "n", " ", "D", "e", "c", " ", "3", "2", " ", "0", "4",
       ":", "4", "7", ":", "4", "4", " ", "2", "0", "0", "5" >>,
    << "b", "o", "g", "u", "s", " ", "t", "i", "m", "e" >> }

ErrLevels ==
    { << "e", "r", "r", "o", "r" >>,
    << "n", "o", "t", "i", "c", "e" >>,
    << "E", "r", "r", "o", "r" >> }

\* the context of an error line, with the address of the client it names
ErrContexts ==
    { [has_context |-> FALSE],
      [has_context |-> TRUE,
       text |->
           << "c", "l", "i", "e", "n", "t", " ", "1", ".", "2", ".", "3",
              ".", "4" >>,
       address |-> << "1", ".", "2", ".", "3", ".", "4" >>],
      [has_context |-> TRUE,
       text |->
           << "p", "i", "d", " ", "5", " ", "c", "l", "i", "e", "n", "t",
              " ", "1", "0", ".", "0", ".", "0", ".", "1" >>,
       address |-> << "1", "0", ".", "0", ".", "0", ".", "1" >>],
      [has_context |-> TRUE,
       text |->
           << "u", "n", "i", "q", "u", "e", "_", "i", "d", " ", "a", "b",
              "c" >>,
       address |-> << >>],
      [has_context |-> TRUE,
       text |->
           << "c", "l", "i", "e", "n", "t", " ", ":", ":", "1" >>,
       address |-> << ":", ":", "1" >>],
      [has_context |-> TRUE,
       text |->
           << "c", "l", "i", "e", "n", "t", " ", "2", "0", "0", "1", ":",
              "d", "b", "8", ":", ":", "1" >>,
       address |-> << "2", "0", "0", "1", ":", "d", "b", "8", ":", ":", "1" >>] }

\* the second message is longer than UrlMax characters
ErrMessages ==
    { << "F", "i", "l", "e", " ", "d", "o", "e", "s", " ", "n", "o", "t",
       " ", "e", "x", "i", "s", "t", ":", " ", "/", "x" >>,
    << "D", "i", "r", "e", "c", "t", "o", "r", "y", " ", "i", "n", "d",
       "e", "x", " ", "f", "o", "r", "b", "i", "d", "d", "e", "n", " ",
       "b", "y", " ", "r", "u", "l", "e", ":", " ", "/", "v", "a", "r",
       "/", "w", "w", "w", "/", "h", "t", "m", "l", "/", "a", "/", "v",
       "e", "r", "y", "/", "l", "o", "n", "g", "/", "p", "a", "t", "h",
       "/", "t", "h", "a", "t", "/", "g", "o", "e", "s", "/", "o", "n",
       "/", "a", "n", "d", "/", "o", "n", "/", "u", "n", "t", "i", "l",
       "/", "i", "t", "/", "i", "s", "/", "c", "u", "t", "/", "o", "f",
       "f", "/", "i", "n", "d", "e", "x", ".", "h", "t", "m", "l" >> }

ErrFields ==
    [timestamp : ErrTimestamps, level : ErrLevels, context : ErrContexts,
     message : ErrMessages, padded : Paddings]

\* [timestamp] [level] ([context])? message
FormatError(f) ==
    Pad(f,
        << "[" >> \o f.timestamp \o << "]", " ", "[" >> \o f.level
            \o << "]" >>
            \o (IF f.context.has_context
                THEN << " ", "[" >> \o f.context.text \o << "]" >>
                ELSE << >>)
            \o << " " >> \o f.message)

\* lines of the error form that match the combined log grammar too: the
\* timestamp, the level and the context are single words in brackets, the
\* message is the rest of a combined log line
BothFields ==
    [timestamp : {<< "2", "0", "0", "5" >>},
     level : ErrLevels,
     context : {[has_context |-> TRUE, text |-> << "-" >>,
                 address |-> << >>]},
     message : {
        << "[", "0", "1", "/", "J", "u", "l", "/", "1", "9", "9", "5",
           ":", "0", "0", ":", "0", "0", ":", "0", "1", " ", "-", "0",
           "4", "0", "0", "]", " ", "\"", "G", "E", "T", " ", "/", "i",
           "n", "d", "e", "x", ".", "h", "t", "m", "l", " ", "H", "T",
           "T", "P", "/", "1", ".", "0", "\"", " ", "2", "0", "0", " ",
           "7" >> },
     padded : Paddings]

\* lines that match neither grammar
GarbageTexts ==
    { << "g", "a", "r", "b", "a", "g", "e", " ", "l", "i", "n", "e" >>,
    << >>,
    << " ", " ", " " >>,
    << "1", "0", ".", "0", ".", "0", ".", "1", " ", "-", " ", "-", " ",
       "[", "0", "1", "/", "J", "u", "l", "/", "1", "9", "9", "5", ":",
       "0", "0", ":", "0", "0", ":", "0", "1", " ", "-", "0", "4", "0",
       "0", "]", " ", "\"", "P", "O", "S", "T", " ", "/", "a", "p", "i",
       " ", "H", "T", "T", "P", "/", "1", ".", "1", "\"", " ", "4", "0",
       " ", "1", "2" >>,
    << "1", "0", ".", "0", ".", "0", ".", "1", " ", "-", " ", "-", " ",
       "[", "0", "1", "/", "J", "u", "l", "/", "1", "9", "9", "5", ":",
       "0", "0", ":", "0", "0", ":", "0", "1", "]", " ", "\"", "P", "O",
       "S", "T", " ", "/", "a", "p", "i", " ", "H", "T", "T", "P", "/",
       "1", ".", "1", "\"", " ", "4", "0", "4", " ", "1", "2" >>,
    << "1", "0", ".", "0", ".", "0", ".", "1", " ", "-", " ", "-", " ",
       "0", "1", "/", "J", "u", "l", "/", "1", "9", "9", "5", ":", "0",
       "0", ":", "0", "0", ":", "0", "1", " ", "-", "0", "4", "0", "0",
       " ", "\"", "P", "O", "S", "T", " ", "/", "a", "p", "i", " ", "H",
       "T", "T", "P", "/", "1", ".", "1", "\"", " ", "4", "0", "4", " ",
       "1", "2" >>,
    << "1", "0", ".", "0", ".", "0", ".", "1", " ", "-", " ", "-", " ",
       "[", "0", "1", "/", "J", "u", "l", "/", "1", "9", "9", "5", ":",
       "0", "0", ":", "0", "0", ":", "0", "1", " ", "-", "0", "4", "0",
       "0", "]", " ", "P", "O", "S", "T", " ", "/", "a", "p", "i", " ",
       "H", "T", "T", "P", "/", "1", ".", "1", " ", "4", "0", "4", " ",
       "1", "2" >>,
    << "1", "0", ".", "0", ".", "0", ".", "1", " ", "-", " ", "-", " ",
       "[", "0", "1", "/", "J", "u", "l", "/", "1", "9", "9", "5", ":",
       "0", "0", ":", "0", "0", ":", "0", "1", " ", "-", "0", "4", "0",
       "0", "]", " ", "\"", "P", "O", "S", "T", " ", "/", "a", "p", "i",
       "\"", " ", "4", "0", "4", " ", "1", "2" >>,
    << "1", "0", ".", "0", ".", "0", ".", "1", " ", "-", " ", "-", " ",
       "[", "0", "1", "/", "J", "u", "l", "/", "1", "9", "9", "5", ":",
       "0", "0", ":", "0", "0", ":", "0", "1", " ", "-", "0", "4", "0",
       "0", "]", " ", "\"", "P", "O", "S", "T", " ", "/", "a", "p", "i",
       " ", "H", "T", "T", "P", "/", "1", ".", "1", "\"", " ", "4", "0",
       "4" >>,
    << "[", "S", "u", "n", " ", "D", "e", "c", " ", "0", "4", " ", "0",
       "4", ":", "4", "7", ":", "4", "4", " ", "2", "0", "0", "5", "]",
       " ", "[", "e", "r", "r", "o", "r", "]" >>,
    << "[", "S", "u", "n", " ", "D", "e", "c", " ", "0", "4", " ", "0",
       "4", ":", "4", "7", ":", "4", "4", " ", "2", "0", "0", "5", "]",
       " ", "[", "c", "o", "r", "e", ":", "e", "r", "r", "o", "r", "]",
       " ", "m", "o", "d", "_", "j", "k", " ", "c", "h", "i", "l", "d" >>,
    << "[", "S", "u", "n", " ", "D", "e", "c", " ", "0", "4", " ", "0",
       "4", ":", "4", "7", ":", "4", "4", ".", "5", " ", "2", "0", "0",
       "5", "]", " ", "[", "e", "r", "r", "o", "r", "]", " ", "m", "o",
       "d", "_", "j", "k", " ", "c", "h", "i", "l", "d" >>,
    << "[", "S", "u", "n", " ", "D", "e", "c", " ", "0", "4", " ", "0",
       "4", ":", "4", "7", ":", "4", "4", " ", "2", "0", "0", "5", "]",
       " ", "e", "r", "r", "o", "r", " ", "m", "o", "d", "_", "j", "k",
       " ", "c", "h", "i", "l", "d" >> }

\* the line is read at instant clock
CallParse ==
    /\ Requested("parse_apache_log")
    /\ call' = [fn |-> call.fn, arg |-> call.arg, done |-> TRUE,
                at |-> clock, ret |-> ParseText(call.arg.line, clock)]
    /\ UNCHANGED << pipeVars, ip_cache >>

\* lines a worker takes from Q_raw: private and public addresses, clean
\* and attack urls, statuses below and above 400
WorkerClfFields ==
    [ip : ClfIps \cup { << "8", ".", "8", ".", "8", ".", "8" >> },
     timestamp : { << "0", "1", "/", "J", "u", "l", "/", "1", "9", "9", "5",
                     ":", "0", "0", ":", "0", "0", ":", "0", "1", " ", "-",
                     "0", "4", "0", "0" >> },
     method : { << "G", "E", "T" >> },
     url : { IndexUrl, PasswdUrl,
             << "/", "?", "C", "M", "D", "=", "r", "m" >> },
     status : {200, 404},
     bytes : [num : {7}],
     tail : ClfTails,
     padded : {FALSE}]

WorkerLines ==
    {FormatClf(f) : f \in WorkerClfFields}
        \cup {FormatError(f) : f \in ErrFields}
        \cup GarbageTexts

\* one iteration of parser_worker on a message: parse, enrich, classify;
\* ret is the event it puts on parsed_queue, None when it puts nothing
CallParserWorker ==
    /\ Requested("parser_worker")
    /\ LET event == ParseText(call.arg.line, clock) IN
       IF event = None
       THEN /\ call' = [fn |-> call.fn, arg |-> call.arg, done |-> TRUE,
                        parsed |-> None, ret |-> None]
            /\ ip_cache' = ip_cache
       ELSE LET r == WorkerEvent(event, call.arg.ingested_at, ip_cache) IN
            /\ call' = [fn |-> call.fn, arg |-> call.arg, done |-> TRUE,
                        parsed |-> event, ret |-> r.event]
            /\ ip_cache' = r.cache
    /\ UNCHANGED pipeVars

Requests ==
    {Request("is_suspicious", event) : event \in SuspiciousInputs}
        \cup {Request("parser_worker", [line |-> l, ingested_at |-> 0]) :
                  l \in WorkerLines}
        \cup {Request("enrich_user_agent", ua) : ua \in UserAgents}
        \cup {Request("enrich_ip", ip) : ip \in IpTexts}
        \cup {Request("parse_apache_log",
                      [kind |-> "clf", from |-> f, line |-> FormatClf(f)]) :
                  f \in ClfFields}
        \cup {Request("parse_apache_log",
                      [kind |-> "err", from |-> f, line |-> FormatError(f)]) :
                  f \in ErrFields}
        \cup {Request("parse_apache_log",
                      [kind |-> "both", from |-> f, line |-> FormatError(f)]) :
                  f \in BothFields}
        \cup {Request("parse_apache_log", [kind |-> "none", line |-> g]) :
                  g \in GarbageTexts}

InitUtils ==
    /\ StartPipeline({1}, {1}, {TickStep}, {<< >>})
    /\ call \in Requests
    /\ ip_cache = << >>

NextUtils ==
    \/ CallIsSuspicious
    \/ CallEnrichUserAgent
    \/ CallEnrichIp
    \/ CallParse
    \/ CallParserWorker
    \/ Tick(TickStep)

SpecUtils == InitUtils /\ [][NextUtils]_vars

\* the text has the pattern at position i, letter case aside
MatchesAt(text, p, i) ==
    /\ i + Len(p) - 1 <= Len(text)
    /\ \A k \in 1..Len(p) :
          \/ text[i + k - 1] = p[k]
          \/ \E j \in DOMAIN UpperCase :
                text[i + k - 1] = UpperCase[j] /\ p[k] = LowerCase[j]

HasAttackPattern(text) ==
    \E n \in DOMAIN attack_patterns : \E i \in 1..Len(text) :
        MatchesAt(text, attack_patterns[n], i)

\* C23: is_suspicious(event) is true exactly when status >= 400 or the
\* url, letter case aside, contains one of '../', 'script>', 'union select',
\* '/etc/passwd', 'cmd='; {404, '/index.html'} and {200,
\* '/admin/../../../etc/passwd'} are suspicious, {200, '/index.html'} is
\* not; the event is the same after the call.
C23_SuspiciousExactly ==
    (call.fn = "is_suspicious" /\ call.done) =>
        LET event == call.arg
            status == IF "status" \in DOMAIN event THEN event.status ELSE 0
            url == IF "url" \in DOMAIN event THEN event.url ELSE << >>
        IN /\ call.ret <=> (status >= 400 \/ HasAttackPattern(url))
           /\ (status = 404 /\ url = IndexUrl) => call.ret
           /\ (status = 200 /\ url = PasswdUrl) => call.ret
           /\ (status = 200 /\ url = IndexUrl) => ~call.ret
           /\ call.after = event

\* a url with status 200 is found suspicious by a pattern in upper case
C23_Witness ==
    /\ call.fn = "is_suspicious"
    /\ call.done
    /\ DOMAIN call.arg = {"status", "url"}
    /\ call.arg.status = 200
    /\ call.arg.url # Lower(call.arg.url)
    /\ call.ret

\* the user agent contains the word, letter case aside
HasWord(text, word) == \E i \in 1..Len(text) : MatchesAt(text, word, i)

\* C24: enrich_user_agent classifies by substring, letter case aside, in
\* fixed priority: browser firefox > chrome > safari > msie/trident > Other
\* and OS windows > mac/darwin > linux > android > ios/iphone/ipad > Other;
\* an agent with both 'Chrome' and 'Safari' yields Chrome, the Windows
\* Firefox agent {Firefox, Windows}, the Macintosh Chrome agent {Chrome,
\* macOS}, the empty string {Other, Other}.
C24_UserAgentPriority ==
    (call.fn = "enrich_user_agent" /\ call.done) =>
        LET ua == call.arg
            has(word) == HasWord(ua, word)
            b == call.ret.browser
            o == call.ret.os
            firefox == has(<< "f", "i", "r", "e", "f", "o", "x" >>)
            chrome  == has(<< "c", "h", "r", "o", "m", "e" >>)
            safari  == has(<< "s", "a", "f", "a", "r", "i" >>)
            ie      == has(<< "m", "s", "i", "e" >>) \/ has(<< "t", "r", "i", "d", "e", "n", "t" >>)
            windows == has(<< "w", "i", "n", "d", "o", "w", "s" >>)
            mac     == has(<< "m", "a", "c" >>) \/ has(<< "d", "a", "r", "w", "i", "n" >>)
            linux   == has(<< "l", "i", "n", "u", "x" >>)
            android == has(<< "a", "n", "d", "r", "o", "i", "d" >>)
            ios     == \/ has(<< "i", "o", "s" >>)
                       \/ has(<< "i", "p", "h", "o", "n", "e" >>)
                       \/ has(<< "i", "p", "a", "d" >>)
        IN /\ (b = "Firefox") <=> firefox
           /\ (b = "Chrome") <=> (chrome /\ ~firefox)
           /\ (b = "Safari") <=> (safari /\ ~chrome /\ ~firefox)
           /\ (b = "Internet Explorer")
                 <=> (ie /\ ~safari /\ ~chrome /\ ~firefox)
           /\ (b = "Other") <=> ~(firefox \/ chrome \/ safari \/ ie)
           /\ (o = "Windows") <=> windows
           /\ (o = "macOS") <=> (mac /\ ~windows)
           /\ (o = "Linux") <=> (linux /\ ~mac /\ ~windows)
           /\ (o = "Android") <=> (android /\ ~linux /\ ~mac /\ ~windows)
           /\ (o = "iOS")
                 <=> (ios /\ ~android /\ ~linux /\ ~mac /\ ~windows)
           /\ (o = "Other")
                 <=> ~(windows \/ mac \/ linux \/ android \/ ios)
           /\ (chrome /\ safari /\ ~firefox) => b = "Chrome"
           /\ ua = FirefoxWindowsUa
                 => call.ret = [browser |-> "Firefox", os |-> "Windows"]
           /\ ua = ChromeMacUa
                 => call.ret = [browser |-> "Chrome", os |-> "macOS"]
           /\ ua = << >> => call.ret = [browser |-> "Other", os |-> "Other"]

\* the agent that names Chrome and Safari has been classified
C24_Witness ==
    /\ call.fn = "enrich_user_agent"
    /\ call.done
    /\ call.arg = ChromeSafariUa
    /\ call.ret = [browser |-> "Chrome", os |-> "Linux"]

\* the text begins with the prefix, character by character
Begins(text, prefix) ==
    /\ Len(text) >= Len(prefix)
    /\ \A k \in 1..Len(prefix) : text[k] = prefix[k]

IpClass(ip) ==
    IF \/ Begins(ip, << "1", "0", "." >>)
       \/ Begins(ip, << "1", "9", "2", ".", "1", "6", "8", "." >>)
       \/ Begins(ip, << "1", "7", "2", "." >>)
    THEN "private"
    ELSE IF Begins(ip, << "1", "2", "7", "." >>) THEN "localhost"
    ELSE "public"

\* C25: whatever calls came before (hit or miss, before or after an
\* eviction at capacity), enrich_ip returns for an address the class of its
\* prefix: private for 10., 192.168. and 172., localhost for 127., public
\* otherwise; so equal addresses always get equal results.
C25_CacheTransparent ==
    (call.fn = "enrich_ip" /\ call.done) =>
        /\ call.ret = [ip_class |-> IpClass(call.arg), suspicious |-> FALSE]
        /\ Len(ip_cache) <= IpCacheSize
        /\ \A i \in DOMAIN ip_cache :
              ip_cache[i].value.ip_class = IpClass(ip_cache[i].key)

\* a hit on a private address in a full cache, after an eviction
C25_Witness ==
    /\ call.fn = "enrich_ip"
    /\ call.done
    /\ call.hit
    /\ call.evicted
    /\ Len(ip_cache) = IpCacheSize
    /\ call.ret.ip_class = "private"
    /\ \E i \in DOMAIN ip_cache :
          ip_cache[i].value.ip_class = "localhost"

\* the first n characters of a text
FirstChars(text, n) ==
    [i \in 1..(IF Len(text) < n THEN Len(text) ELSE n) |-> text[i]]

\* C26: for a valid combined/common log line, parse_apache_log returns an
\* event whose ip, method, url, status and bytes are the fields of the line
\* (and user_agent when the line has one); a bytes field of '-' or one
\* that is no number yields 0; a line that matches neither grammar yields
\* None.
C26_ClfRoundTrip ==
    (call.fn = "parse_apache_log" /\ call.done) =>
        /\ call.arg.kind = "clf" =>
              LET f == call.arg.from IN
              /\ call.ret # None
              /\ call.ret.ip = f.ip
              /\ call.ret.method = f.method
              /\ call.ret.url = f.url
              /\ call.ret.status = f.status
              /\ call.ret.bytes
                    = (IF "num" \in DOMAIN f.bytes THEN f.bytes.num ELSE 0)
              /\ f.tail.has_tail
                    => call.ret.user_agent = f.tail.user_agent
        /\ call.arg.kind = "none" => call.ret = None

\* a padded line with a referer, a user agent and a bytes field of '12x'
\* has been parsed
C26_Witness ==
    /\ call.fn = "parse_apache_log"
    /\ call.done
    /\ call.arg.kind = "clf"
    /\ call.arg.from.padded
    /\ call.arg.from.tail.has_tail
    /\ call.arg.from.bytes = [text |-> << "1", "2", "x" >>]
    /\ call.ret # None
    /\ call.ret.bytes = 0

\* the event of an error/notice line but for its ip: method 'LOG', url the
\* first 100 characters of the message, status 400 exactly when the level
\* is 'error', bytes 0, referer the context, user_agent the level
SynthesizedAsLog(f, message, event) ==
    /\ event # None
    /\ event.method = << "L", "O", "G" >>
    /\ event.url = FirstChars(message, 100)
    /\ event.status
          = (IF f.level = << "e", "r", "r", "o", "r" >> THEN 400 ELSE 200)
    /\ event.bytes = 0
    /\ event.referer
          = (IF f.context.has_context THEN f.context.text ELSE << >>)
    /\ event.user_agent = f.level

\* C27: the grammars are tried in order and the first match wins: a line
\* of the error/notice form (one that matches the combined log form too
\* included) is synthesized as method 'LOG', url = first 100 characters of
\* the message, status 400 exactly when level is 'error', bytes 0, referer
\* = context, user_agent = level, and ip = the address after 'client ' in
\* the context, or the empty string when there is none.
C27_ErrorFormSynthesized ==
    (call.fn = "parse_apache_log" /\ call.done
        /\ call.arg.kind \in {"err", "both"}) =>
        LET f == call.arg.from
        IN /\ SynthesizedAsLog(f, f.message, call.ret)
           /\ call.arg.kind = "both" => MatchClf(Strip(call.arg.line)) # None
           /\ call.ret.ip
                 = (IF f.context.has_context THEN f.context.address
                    ELSE << >>)

\* '01/Jul/1995:00:00:01 -0400' and 'Sun Dec 04 04:47:44 2005'
GoodTimestamps ==
    { << "0", "1", "/", "J", "u", "l", "/", "1", "9", "9", "5", ":", "0",
         "0", ":", "0", "0", ":", "0", "1", " ", "-", "0", "4", "0",
         "0" >>,
      << "S", "u", "n", " ", "D", "e", "c", " ", "0", "4", " ", "0", "4",
         ":", "4", "7", ":", "4", "4", " ", "2", "0", "0", "5" >> }

\* the same line with a timestamp that can be parsed
WithGoodTimestamp(arg) ==
    IF arg.kind = "clf"
    THEN FormatClf([arg.from EXCEPT !.timestamp =
            << "0", "1", "/", "J", "u", "l", "/", "1", "9", "9", "5",
               ":", "0", "0", ":", "0", "0", ":", "0", "1", " ", "-",
               "0", "4", "0", "0" >>])
    ELSE FormatError([arg.from EXCEPT !.timestamp =
            << "S", "u", "n", " ", "D", "e", "c", " ", "0", "4", " ",
               "0", "4", ":", "4", "7", ":", "4", "4", " ", "2", "0",
               "0", "5" >>])

\* C28: a line that matches either grammar but whose timestamp text cannot
\* be parsed still yields an event, with timestamp the instant of the call
\* and every other field as the same line with a good timestamp yields it;
\* a timestamp that can be parsed is the event's timestamp.
C28_BadTimestampKept ==
    (call.fn = "parse_apache_log" /\ call.done
        /\ call.arg.kind \in {"clf", "err", "both"}) =>
        /\ call.ret # None
        /\ call.arg.from.timestamp \notin GoodTimestamps =>
              LET usual == ParseText(WithGoodTimestamp(call.arg), call.at) IN
              /\ call.ret.timestamp = [now |-> call.at]
              /\ usual # None
              /\ call.ret = [usual EXCEPT !.timestamp = [now |-> call.at]]
        /\ call.arg.from.timestamp \in GoodTimestamps =>
              /\ "year" \in DOMAIN call.ret.timestamp
              /\ call.ret.timestamp.second \in {1, 44}
              /\ call.arg.kind = "clf" =>
                    call.ret.timestamp
                        = [year |-> 1995, month |-> 7, day |-> 1,
                           hour |-> 0, minute |-> 0, second |-> 1]

\* an error line dated 'Sun Dec 32' has been parsed after the clock moved
C28_Witness ==
    /\ call.fn = "parse_apache_log"
    /\ call.done
    /\ call.arg.kind = "err"
    /\ call.arg.from.timestamp[9] = "3"
    /\ call.at = TickStep
    /\ call.ret # None
    /\ call.ret.timestamp = [now |-> TickStep]

\* C29: the metrics collector is the only consumer of Q_alerts and its
\* alerts_count is the running total of the alerts it has drained: from one
\* metrics row to the next alerts_count never decreases, it never exceeds
\* the number of alert rows persisted so far, and each alert is counted at
\* most once (what was counted and what still waits on the queue make up
\* what the indexer has put).
C29_AlertsCountedOnce ==
    /\ [](/\ alerts_count + Len(Q_alerts) = put_alerts
          /\ put_alerts <= Len(alerts))
    /\ [][/\ alerts_count' >= alerts_count
          /\ Len(Q_alerts') < Len(Q_alerts) =>
                /\ met_pc = "sleep"
                /\ alerts_count' - alerts_count
                      = Len(Q_alerts) - Len(Q_alerts')]_vars

\* one alert has been counted and written to a row, the next one waits
C29_Witness ==
    /\ alerts_count >= 1
    /\ Q_alerts # << >>
    /\ met_pc = "sleep"

\* the indexer takes a step of its own
IndexerActs ==
    /\ idx_pc \notin Exited
    /\ idx_pc' # idx_pc
    /\ idx_pc' # "killed"

\* the data a stage keeps for itself changes in this step
IngestorDataChanges ==
    << f_pos, lines, msg_at, events_sent >>'
        # << f_pos, lines, msg_at, events_sent >>

ParserDataChanges == par_event' # par_event

IndexerDataChanges ==
    << batch, indexed_count, error_tracking, events, alerts, txn >>'
        # << batch, indexed_count, error_tracking, events, alerts, txn >>

MetricsDataChanges == alerts_count' # alerts_count

\* C30: the store is written only by the indexer: a step that changes the
\* rows of the events or alerts table is a step of the indexer, and of no
\* other stage or of main(); and no step changes the data of two stages:
\* stages share nothing but the queues and the shutdown signal.
C30_StoreWrittenByIndexerOnly ==
    [][/\ (events' # events \/ alerts' # alerts) =>
             /\ IndexerActs
             /\ ing_pc' = ing_pc
             /\ par_pc' = par_pc
             /\ met_pc' = met_pc
             /\ main_pc' = main_pc
       /\ ~(IngestorDataChanges /\ ParserDataChanges)
       /\ ~(IngestorDataChanges /\ IndexerDataChanges)
       /\ ~(IngestorDataChanges /\ MetricsDataChanges)
       /\ ~(ParserDataChanges /\ IndexerDataChanges)
       /\ ~(ParserDataChanges /\ MetricsDataChanges)
       /\ ~(IndexerDataChanges /\ MetricsDataChanges)
       /\ (main_pc' # main_pc \/ join_i' # join_i) =>
             ~(IngestorDataChanges \/ ParserDataChanges
                  \/ MetricsDataChanges)]_vars

\* main() has printed its summary over a store that holds rows, after
\* every stage has run
C30_Witness ==
    /\ main_pc = "done"
    /\ events # << >>
    /\ events_sent > 0
    /\ met_pc = "done"

-----------------------------------------------------------------------------
(* Alerts: persisted, then pushed *)

\* the messages the step puts on alert_queue
PutNow == SubSeq(Q_alerts', Len(Q_alerts') - (put_alerts' - put_alerts) + 1,
                 Len(Q_alerts'))

\* C31: every alert is persisted and then pushed: the alerts table has as
\* many rows as messages were ever put on Q_alerts (each row has exactly
\* one message, and no message is without a row), and a message that is
\* put is the image of a row that is committed.
C31_AlertPersistedThenPut ==
    /\ [](Len(alerts) = put_alerts)
    /\ [][put_alerts' > put_alerts
            => \A k \in DOMAIN PutNow : PutNow[k] \in Range(alerts')]_vars

\* C32: the in-memory batch never grows beyond the batch size B, and at the
\* start of every indexer loop iteration it holds fewer than B events, a
\* failed flush included.
C32_BatchBelowSize ==
    /\ Len(batch) <= args.batch
    /\ idx_pc = "loop" => Len(batch) < args.batch

-----------------------------------------------------------------------------
(* The per-IP ring at its capacity *)

\* the indexed_at instants of the suspicious events of ip, in the order the
\* indexer dequeued them
SuspiciousStamps(ip) ==
    LET s == SelectSeq(dequeued, LAMBDA e : e.ip = ip /\ e.suspicious) IN
    [k \in DOMAIN s |-> s[k].indexed_at]

\* the last n elements of seq (all of it when it has fewer)
LastOf(seq, n) ==
    IF Len(seq) <= n THEN seq ELSE SubSeq(seq, Len(seq) - n + 1, Len(seq))

\* the suspicious events of ip dequeued so far that are at most 60 s old
RecentSuspicious(ip) ==
    Cardinality({j \in DOMAIN dequeued :
                    /\ dequeued[j].ip = ip /\ dequeued[j].suspicious
                    /\ clock - dequeued[j].indexed_at <= 60})

\* an evaluation gives every IP with at least 5 suspicious events of the
\* last 60 s an alert whose count is their number, capped at 100
SustainedBurstCounted ==
    (idx_pc = "alerts" /\ idx_pc' # "alerts")
    => \A ip \in IPs :
          LET recent == RecentSuspicious(ip) IN
          recent >= 5
          => \E k \in (Len(alerts) + 1)..Len(alerts') :
                /\ alerts'[k].ip = ip
                /\ alerts'[k].count >= 5
                /\ alerts'[k].count = IF recent < 100 THEN recent ELSE 100

\* C33: the ring of an IP holds at most 100 instants and always the most
\* recent ones: it equals the last min(n, 100) indexed_at instants of the
\* IP's n suspicious events, in arrival order; no alert count exceeds 100;
\* and while the IP has at least 5 suspicious events in the last 60 s the
\* count of every evaluation is at least 5 (the number of those events,
\* under-reported as 100 when there are more).
C33_RingKeepsMostRecent ==
    /\ [](\A ip \in IPs :
             /\ Len(RingOf(ip)) <= 100
             /\ RingOf(ip) = LastOf(SuspiciousStamps(ip), 100))
    /\ [](\A a \in Range(AllAlerts) : a.count <= 100)
    /\ [][SustainedBurstCounted]_vars

\* C33 witness: an IP with more than 100 suspicious events inside one window
\* has a full ring and an alert that under-reports them as 100
C33_Witness ==
    /\ Len(SuspiciousStamps(BurstIp)) > 100
    /\ RecentSuspicious(BurstIp) > 100
    /\ Len(RingOf(BurstIp)) = 100
    /\ idx_pc = "loop"
    /\ alerts # << >>
    /\ alerts[Len(alerts)].ip = BurstIp
    /\ alerts[Len(alerts)].count = 100
    /\ alerts[Len(alerts)].created_at = clock

-----------------------------------------------------------------------------
(* The ring and the store *)

\* ts is the indexed_at of a suspicious event of ip among seq
StampOf(seq, ip, ts) ==
    \E j \in DOMAIN seq :
        seq[j].ip = ip /\ seq[j].suspicious /\ seq[j].indexed_at = ts

\* the event the indexer dequeued last
LastDequeued == dequeued[Len(dequeued)]

\* C34 as stated: flush steps are ordered write-then-track-then-evaluate, so
\* every instant of a ring is the indexed_at of a suspicious event of that
\* IP in the events table.
C34_TrackedAfterWrite ==
    \A i \in DOMAIN error_tracking :
        \A k \in DOMAIN error_tracking[i].ts :
            StampOf(events, error_tracking[i].ip, error_tracking[i].ts[k])

\* C34 amended: the order is track-then-write-then-evaluate.  A ring changes
\* only in the step that dequeues a suspicious event, which is then in the
\* in-memory batch and not yet in the events table; and while the indexer
\* runs, every instant of a ring is the indexed_at of a suspicious event of
\* that IP that is in the events table or in the in-memory batch.
C34_TrackedAtDequeue ==
    /\ [](idx_pc \notin Exited
          => \A i \in DOMAIN error_tracking :
                \A k \in DOMAIN error_tracking[i].ts :
                    StampOf(events \o batch, error_tracking[i].ip,
                            error_tracking[i].ts[k]))
    /\ [][error_tracking' # error_tracking
            => /\ idx_pc = "get"
               /\ Len(dequeued') = Len(dequeued) + 1
               /\ LastDequeued'.suspicious
               /\ LastDequeued' \in Range(batch')
               /\ \A j \in DOMAIN events' : events'[j].id # LastDequeued'.id]_vars

\* C34 witness: with --batch 2 the indexer waits for a second event while
\* the ring holds the instant of a suspicious event that is in the batch
\* and in no row
C34_Witness ==
    /\ args.batch = 2
    /\ idx_pc = "get"
    /\ Len(batch) = 1
    /\ batch[1].suspicious
    /\ batch[1].indexed_at \in Range(RingOf(batch[1].ip))
    /\ \A j \in DOMAIN events : events[j].id # batch[1].id

-----------------------------------------------------------------------------
(* Error-form lines in the pipeline *)

ErrorTimestamp ==
    << "S", "u", "n", " ", "D", "e", "c", " ", "0", "4", " ", "0", "4",
       ":", "4", "7", ":", "4", "4", " ", "2", "0", "0", "5" >>

\* "[Sun Dec 04 04:47:44 2005] [error] mod_jk child workerEnv in error state 6"
NoClientText ==
    FormatError([timestamp |-> ErrorTimestamp,
                 level |-> << "e", "r", "r", "o", "r" >>,
                 context |-> [has_context |-> FALSE],
                 message |-> << "m", "o", "d", "_", "j", "k", " ", "c", "h",
                                "i", "l", "d", " ", "w", "o", "r", "k", "e",
                                "r", "E", "n", "v", " ", "i", "n", " ", "e",
                                "r", "r", "o", "r", " ", "s", "t", "a", "t",
                                "e", " ", "6" >>,
                 padded |-> FALSE])

\* "[Sun Dec 04 04:47:44 2005] [error] [client 1.2.3.4] Directory index
\* forbidden by rule: /"
ClientText ==
    FormatError([timestamp |-> ErrorTimestamp,
                 level |-> << "e", "r", "r", "o", "r" >>,
                 context |->
                     [has_context |-> TRUE,
                      text |-> << "c", "l", "i", "e", "n", "t", " ", "1", ".",
                                  "2", ".", "3", ".", "4" >>],
                 message |-> << "D", "i", "r", "e", "c", "t", "o", "r", "y",
                                " ", "i", "n", "d", "e", "x", " ", "f", "o",
                                "r", "b", "i", "d", "d", "e", "n", " ", "b",
                                "y", " ", "r", "u", "l", "e", ":", " ", "/" >>,
                 padded |-> FALSE])

\* the address text as the string the pipeline carries
IpName(text) ==
    IF text = << >> THEN ""
    ELSE IF text = << "1", ".", "2", ".", "3", ".", "4" >> THEN "1.2.3.4"
    ELSE "9.9.9.9"

\* the line of the input file with that text, as parse_apache_log reads it
ErrorLine(text) ==
    LET e == ParseText(text, 0) IN
    Line("err", IpName(e.ip), e.status, e.url)

ErrorLines == { ErrorLine(NoClientText), ErrorLine(ClientText) }

\* a worker's parsed_queue.put(event) for a line of an error log
ErrorEventArrives ==
    /\ events_sent < MaxEvents
    /\ ~QueueFull(Q_parsed, ParsedMax)
    /\ \E line \in ErrorLines :
          Q_parsed' = Append(Q_parsed,
                             Enrich([id |-> events_sent + 1, line |-> line,
                                     ingested_at |-> msg_at]))
    /\ events_sent' = events_sent + 1
    /\ UNCHANGED << ing_pc, f_pos, lines, msg_at, shutdown, clock, cfgVars, utilVars,
                    Q_raw, parVars, idxVars, dbVars, Q_alerts, put_alerts,
                    metVars, mainVars >>

NextErrorLog ==
    \/ ErrorEventArrives
    \/ IndexerLoop
    \/ IndexerGet
    \/ IndexerTimeout
    \/ IndexerFlush
    \/ IndexerCheckAlerts
    \/ IndexerFinal
    \/ Interrupt

\* --batch 1 or 2 on an Apache error log
SpecErrorLog == InitAlert /\ [][NextErrorLog]_vars

\* C35: every alert row references a source IP: the ip of an alert is never
\* the empty string, whatever the mix of lines, error-form lines without a
\* 'client <ip>' context included.
C35_AlertHasIp == \A a \in Range(AllAlerts) : a.ip # ""

-----------------------------------------------------------------------------
(* The indexer with a store that fails *)

NextStoreFail ==
    \/ EventArrives(MaxEvents)
    \/ IndexerLoop
    \/ IndexerGet
    \/ IndexerTimeout
    \/ IndexerFlush
    \/ IndexerFlushFail
    \/ IndexerCheckAlerts
    \/ IndexerCheckAlertsFail
    \/ IndexerFinal
    \/ IndexerFinalFail
    \/ Interrupt

\* --batch 1 or 2; any write to the store may raise
SpecStoreFail == InitAlert /\ [][NextStoreFail]_vars

\* the suspicious events of ip that are committed to the events table
CommittedSuspicious(ip) ==
    {events[j].id : j \in {i \in DOMAIN events :
                              events[i].ip = ip /\ events[i].suspicious}}

\* C36: an alert's count never exceeds the number of suspicious events of
\* its IP that are committed to the events table; the alerts are evaluated
\* only directly after a flush that succeeded, with the batch empty and
\* every dequeued event persisted.
C36_CountWithinPersisted ==
    /\ [](\A a \in Range(AllAlerts) :
             a.count <= Cardinality(CommittedSuspicious(a.ip)))
    /\ [](idx_pc = "alerts"
          => /\ batch = << >>
             /\ \A j \in DOMAIN dequeued :
                   \E i \in DOMAIN events : events[i].id = dequeued[j].id)
    /\ [][(idx_pc' = "alerts" /\ idx_pc # "alerts")
            => /\ idx_pc = "flush"
               /\ failures' = failures
               /\ events' = events \o txn.events \o batch]_vars

\* C36 witness: a flush failed, the batch it kept was written together with
\* a later event, and an alert counts every committed suspicious event of
\* its IP
C36_Witness ==
    /\ failures >= 1
    /\ \E i \in DOMAIN formed : Len(formed[i]) > args.batch
    /\ idx_pc = "loop"
    /\ alerts # << >>
    /\ alerts[Len(alerts)].count
          = Cardinality(CommittedSuspicious(alerts[Len(alerts)].ip))

-----------------------------------------------------------------------------
(* The suspicious flag of a parsed event *)

\* C37: the suspicious flag of every event a parser worker puts on Q_parsed
\* is the classification of that event's status and url (status >= 400, or
\* an attack pattern in the url): the 'suspicious: False' that comes with
\* the data of enrich_ip is merged into the event, and is overwritten.
C37_FlagIsClassifier ==
    (call.fn = "parser_worker" /\ call.done /\ call.ret # None) =>
        /\ call.ret.suspicious
              <=> (call.parsed.status >= 400
                   \/ HasAttackPattern(call.parsed.url))
        /\ "ip_class" \in DOMAIN call.ret
        /\ call.ret.ip_class = enrich_ip(call.parsed.ip).ip_class
        /\ ~enrich_ip(call.parsed.ip).suspicious
        /\ \A k \in DOMAIN call.parsed : call.ret[k] = call.parsed[k]

\* C37 witness: a request with status 200 from a private address is put on
\* Q_parsed with suspicious = True, for the attack pattern in its url
C37_Witness ==
    /\ call.fn = "parser_worker" /\ call.done /\ call.ret # None
    /\ call.ret.ip_class = "private"
    /\ call.ret.status = 200
    /\ call.ret.url = PasswdUrl
    /\ call.ret.suspicious

-----------------------------------------------------------------------------
(* The order of the rows *)

\* --workers 1 or 2, --batch 2
InitOrder ==
    /\ StartWorkers({1, 2}, {2}, {1}, {TickStep}, Files)
    /\ call = NoCall
    /\ ip_cache = << >>

SpecOrder == InitOrder /\ [][Next]_vars

\* the rows of seq are in the order the ingestor put their messages on Q_raw
InIngestOrder(seq) ==
    \A i, j \in DOMAIN seq : i < j => seq[i].id <= seq[j].id

\* C38: with a single parser worker the events are persisted in the order
\* their lines were put on Q_raw: no row of the events table stands before
\* the row of a line that was put on Q_raw earlier.
C38_SingleWorkerKeepsOrder ==
    args.workers = 1 => InIngestOrder(events)

\* with a single worker and no failed write the rows are in ingest order,
\* one row per message
C38_OrderWithoutFailure ==
    (args.workers = 1 /\ failures = 0)
    => \A i, j \in DOMAIN events : i < j => events[i].id < events[j].id

\* with two workers the rows can be out of order: the row of a message put
\* on Q_raw later has the smaller row id (this state is reachable)
C38_Reordered ==
    /\ args.workers = 2
    /\ failures = 0
    /\ \E i, j \in DOMAIN events : i < j /\ events[i].id > events[j].id

-----------------------------------------------------------------------------
(* The events_processed column of metrics.csv *)

\* the collector samples and writes a row in this step
MetricsWritesRow == met_pc = "sleep" /\ met_pc' = "loop"

\* C39: events_processed of every metrics row is a running counter of the
\* processed events plus the Q_parsed depth: it is at least the depth
\* sampled at that tick, and it grows with the events that have passed
\* through the pipeline instead of staying within the capacity of Q_parsed:
\* a row written when more events than Q_parsed can hold are persisted, and
\* after a row that already counted an alert, shows more than that capacity.
C39_EventsProcessedGrows ==
    [][MetricsWritesRow =>
          /\ MetricsRow.events_processed >= MetricsRow.parsed_queue_size
          /\ (alerts_count >= 1 /\ Len(events) > ParsedMax)
                => MetricsRow.events_processed > ParsedMax]_vars

\* what the collector writes: last_event_count stays 0, every row shows the
\* Q_parsed depth of its tick and nothing else
C39_EventsProcessedIsDepth ==
    /\ last_event_count = 0
    /\ MetricsRow.events_processed = Len(Q_parsed)
    /\ args.batch >= 1 => MetricsRow.events_processed <= ParsedMax

====
